---- MODULE Spec2Model ----
(***************************************************************************)
(* A model of the agent gateway (backend/internal/agent, internal/api):    *)
(* the Process, with one supervised subprocess, the pending-request table, *)
(* the pending-permission table, the read loop and the stderr drain, under *)
(* the interleavings the Process mutex allows; the Manager that holds one  *)
(* Process per configured agent; and the notification translator of a chat *)
(* turn.  One action is one critical section of the Go code together with  *)
(* the lock-free code that follows it up to the next point where the       *)
(* goroutine can be overtaken.                                             *)
(***************************************************************************)
EXTENDS Naturals, Integers, Sequences, FiniteSets, TLC

\* ---------------------------------------------------------------- bounds
NCallers == 2    \* goroutines that call Request or Start (one call each)
NStoppers == 1   \* goroutines that call Stop (one call each)
MaxInst == 2     \* subprocesses that can be spawned in one behaviour
MaxPerms == 1    \* permission requests the subprocesses make in one behaviour
NTools == 2      \* distinct tool-call ids a subprocess uses
MaxReverse == 1  \* reverse requests other than well-formed permission requests

Callers == 1..NCallers
Stoppers == 1..NStoppers
AllStoppers == 1..(NStoppers + 1)   \* with one more, to overlap or repeat a Stop
Inst == 1..MaxInst
ReqIds == 1..NCallers
ToolIds == 1..NTools
Options == {"allow_once", "reject_once"}

\* ---------------------------------------------------------------- state
VARIABLES
  status,     \* Process.status
  cmd,        \* Process.cmd: the instance referenced, 0 for nil
  stdin,      \* Process.stdin
  stdout,     \* Process.stdout
  stderr,     \* Process.stderr
  requestID,  \* Process.requestID
  pending,    \* keys of Process.pending
  chan,       \* the Result channel made for each request id
  sends,      \* per Result channel, how many messages were sent on it
  perms,      \* Process.permissions: tool-call id -> PendingPermission
  permChan,   \* the Response channel the read loop currently waits on
  inst,       \* each subprocess: none, alive, exited
  asked,      \* reverse requests scanned so far
  inbox,      \* each subprocess's stdin: the responses written to it
  nextInst,   \* the next subprocess to be spawned
  thKind,     \* each caller: the call it makes (request or start)
  thPc,       \* each caller: its position in Request / Start
  thId,       \* each caller: the request id it allocated
  thRes,      \* each caller: what its call returned
  stPc,       \* each stopper: its position in Stop
  stInst,     \* each stopper: the cmd it snapshotted
  stOverlap,  \* each stopper: a Start or Request ran during its Stop
  rlPc,       \* each read loop: its position (indexed by the Start that launched it)
  rlCap,      \* each read loop: the stdout it captured (currentStdout)
  rlMsg,      \* each read loop: the permission request it is serving
  handled,    \* the line the read loops handled last, and what it was handled as
  sdPc,       \* each stderr drain: its position
  sdCap,      \* each stderr drain: the stderr it captured
  lineNo,     \* each subprocess's stdout: how many lines were read from it
  rlLine,     \* each read loop: the line it is handling (0 for none)
  sink,       \* the lines whose handling completed, in that order
  optionID,   \* the option id a permission decision carries
  outcome,    \* the outcome computed for it
  cfgAgents,  \* Config.Agents: the configured agent ids, in order
  defaultAgent, \* Manager.defaultAgent
  agents,     \* Manager.agents: agent id -> Process (status, cmd, pending)
  subOwner,   \* each subprocess a managed Process spawned: its agent id
  subState,   \* each such subprocess: none, alive, exited, drained
  mgNext,     \* the next such subprocess to be spawned
  mcKind,     \* each Manager caller: the call it makes (get, start, request)
  mcId,       \* each Manager caller: the agent id it passes
  mcPc,       \* each Manager caller: its position in the call
  mcRes,      \* each Manager caller: what its call returned
  sdnPc,      \* Manager.Shutdown: its position
  sdnLeft,    \* Manager.Shutdown: the agents its loop has not visited yet
  sdnCur,     \* Manager.Shutdown: the subprocess the current Stop waits for
  sdnOverlap, \* a Request or Start call was in progress during Shutdown
  streamItems,   \* the turn's stream items
  currentText,   \* the turn's text buffer: the chunks appended to it
  toolCallMap,   \* tool-call id -> index of its item (0 when the id has none)
  agentCommands, \* Server.agentCommands for the turn's agent
  nEvents,       \* how many events the turn's sink received
  lastEvent,     \* the last of them
  arrived,       \* the text chunks the turn's notifications carried, in order
  nMsgs,         \* notifications handled in the turn
  rlFound, \* each read loop: the request id whose entry it took and has yet to send on
  respAt, \* each request id: the stdout line (pipe, number) that carried its response
  hpPc,  \* handlePermissionRequest: its position
  hpN,  \* handlePermissionRequest: how many requests it has been called for
  reqToolCallID,  \* req.ToolCall.ToolCallID of the request in hand
  toolCallID,  \* handlePermissionRequest's local toolCallID
  surfaced,  \* the tool-call id of the request handed to onPermission (none before)
  permissions,  \* keys of Process.permissions
  respCh,  \* the Response channel of the request in hand
  decided,  \* the first option id confirmed after the callback, for the id it surfaced
  answers, \* the permission responses written to the subprocess
  initialized,  \* Server.initialized[agentID]
  sessionID,  \* Server.agentSessions[convID][agentID]: whether a session id is stored
  chPc,  \* handleChat: its position
  nChats,  \* chat turns begun
  agStatus,  \* the agent Process's status
  agCur,  \* the subprocess the agent Process references (0 for none)
  agAlive,  \* each subprocess of the agent: whether it is running
  agLog,  \* each subprocess of the agent: the methods of the requests written to it
  agNext  \* the next subprocess of the agent to be spawned

vars == <<status, cmd, stdin, stdout, stderr, requestID, pending, chan, sends,
          perms, permChan, inst, asked, inbox, nextInst, thKind, thPc,
          thId, thRes, stPc, stInst, stOverlap, rlPc, rlCap, rlMsg, handled,
          sdPc, sdCap, lineNo, rlLine, sink, optionID, outcome,
          cfgAgents, defaultAgent, agents, subOwner, subState, mgNext,
          mcKind, mcId, mcPc, mcRes, sdnPc, sdnLeft, sdnCur, sdnOverlap,
          streamItems, currentText, toolCallMap, agentCommands, nEvents,
          lastEvent, arrived, nMsgs,
          rlFound,
          respAt,
          hpPc, hpN, reqToolCallID, toolCallID, surfaced, permissions, respCh, decided, answers,
          initialized, sessionID, chPc, nChats, agStatus, agCur, agAlive, agLog, agNext>>

procVars == <<status, cmd, stdin, stdout, stderr>>
reqVars == <<requestID, pending, chan, sends>>
permVars == <<perms, permChan>>
instVars == <<inst, asked, nextInst>>
thVars == <<thKind, thPc, thId, thRes>>
stVars == <<stPc, stInst, stOverlap>>
rlVars == <<rlPc, rlCap, rlMsg, handled>>
sdVars == <<sdPc, sdCap>>
ordVars == <<lineNo, rlLine, sink>>
outVars == <<optionID, outcome>>
cfgVars == <<cfgAgents, defaultAgent>>
subVars == <<subOwner, subState, mgNext>>
mcVars == <<mcKind, mcId, mcPc, mcRes>>
sdnVars == <<sdnPc, sdnLeft, sdnCur, sdnOverlap>>
mgVars == <<cfgVars, agents, subVars, mcVars, sdnVars>>
trVars == <<streamItems, currentText, toolCallMap, agentCommands, nEvents,
            lastEvent, arrived, nMsgs>>
dlvVars == <<rlFound>>
retVars == <<respAt>>
hpVars == <<hpPc, hpN, reqToolCallID, toolCallID, surfaced, permissions, respCh, decided, answers>>
chVars == <<initialized, sessionID, chPc, nChats, agStatus, agCur, agAlive, agLog, agNext>>
extVars == <<ordVars, outVars, mgVars, trVars, dlvVars, retVars, hpVars, chVars>>
notOrd == <<outVars, mgVars, trVars, dlvVars, retVars, hpVars, chVars>>
notOut == <<ordVars, mgVars, trVars, dlvVars, retVars, hpVars, chVars>>
notMgr == <<ordVars, outVars, trVars, dlvVars, retVars, hpVars, chVars>>
notTr == <<ordVars, outVars, mgVars, dlvVars, retVars, hpVars, chVars>>
notDlv == <<ordVars, outVars, mgVars, trVars, retVars, hpVars, chVars>>
notRet == <<ordVars, outVars, mgVars, trVars, dlvVars, hpVars, chVars>>
notHp == <<ordVars, outVars, mgVars, trVars, dlvVars, retVars, chVars>>
notCh == <<ordVars, outVars, mgVars, trVars, dlvVars, retVars, hpVars>>
processVars == <<procVars, reqVars, permVars, instVars, inbox, thVars, stVars,
                 rlVars, sdVars>>

\* ---------------------------------------------------------------- values
StatusIdle == "idle"
StatusStarting == "starting"
StatusRunning == "running"
StatusError == "error"
StatusStopped == "stopped"
Statuses == {StatusIdle, StatusStarting, StatusRunning, StatusError, StatusStopped}

NoChan == [st |-> "none", val |-> 0, err |-> FALSE]
EmptyChan == [st |-> "empty", val |-> 0, err |-> FALSE]
ClosedChan == [st |-> "closed", val |-> 0, err |-> FALSE]
FullChan(id) == [st |-> "full", val |-> id, err |-> FALSE]
ErrChan(id) == [st |-> "full", val |-> id, err |-> TRUE]

NoPerm == [ch |-> 0, rid |-> 0]
NoMsg == [tool |-> 0, rid |-> 0]
NoRes == [tag |-> "none", id |-> 0]

\* stdout lines of a subprocess
RespLine(id) == [k |-> "resp", id |-> id, tool |-> 0]
PermLine(t, rid) == [k |-> "perm", id |-> rid, tool |-> t]
NotifLine == [k |-> "notif", id |-> 0, tool |-> 0]

\* the response to a permission request, as written to a subprocess's stdin
PermResp(rid, o) == [k |-> "result", id |-> rid, opt |-> o]

\* ---------------------------------------------------------------- messages
\* jsonrpc standard error codes.
MethodNotFound == -32601
InvalidParams == -32602
InternalError == -32603

\* A decoded jsonrpc.Message: whether ID is non-nil and its value, Method
\* ("" when the line had none), whether Error is non-nil, whether Params
\* decode into the handler's struct, and whether the file operation a
\* fs/ request asks for succeeds.
Message(hasId, id, method, err, params, io) ==
  [hasId |-> hasId, id |-> id, method |-> method, err |-> err,
   params |-> params, io |-> io]

\* A stdout line: one that json.Unmarshal rejects (or an empty one), or one
\* that decodes into a Message.
Undecodable == [json |-> FALSE, m |-> Message(FALSE, 0, "", FALSE, "ok", "ok")]
Decoded(m) == [json |-> TRUE, m |-> m]

NoLine == [line |-> Undecodable, as |-> "none"]

MethodPermission == "session/request_permission"
MethodReadFile == "fs/read_text_file"
MethodWriteFile == "fs/write_text_file"
FsMethods == {MethodReadFile, MethodWriteFile}

\* A predicate that takes every message without an id for a notification.
IsNotificationAnyMethod(m) == ~m.hasId

\* protocol.go: the three predicates on a Message.
IsRequest(m) == m.hasId /\ m.method # ""
IsResponse(m) == m.hasId /\ m.method = ""
IsNotification(m) == ~m.hasId /\ m.method # ""

\* readLoop lines 355-365 and handleMessage: what a line is handled as.
HandledAs(l) ==
  IF ~l.json THEN "dropped"
  ELSE IF IsResponse(l.m) /\ l.m.hasId THEN "response"
  ELSE IF IsRequest(l.m) THEN "request"
  ELSE IF IsNotification(l.m) THEN "notification"
  ELSE "none"

\* What is written to stdin for a reverse request.
NoReply == [k |-> "nothing", id |-> 0, opt |-> ""]
ErrResp(id, code) == [k |-> "error", id |-> id, opt |-> code]
OkResp(id) == [k |-> "result", id |-> id, opt |-> "content"]
NotifMsg == [k |-> "notification", id |-> 0, opt |-> ""]

\* handleReadFile / handleWriteFile: invalid params, a failed file
\* operation, or the result.
FileReply(m) ==
  IF m.params = "bad" THEN ErrResp(m.id, InvalidParams)
  ELSE IF m.io = "fail" THEN ErrResp(m.id, InternalError)
  ELSE OkResp(m.id)

\* A handler that answers undecodable params as the file handlers do.
PermissionBadParamsError(m) == ErrResp(m.id, InvalidParams)

\* handlePermissionRequest, lines 427-430: params that fail to decode make
\* the handler return.
PermissionBadParamsReply(m) == NoReply

\* handleRequest: the reply to a reverse request that does not start the
\* permission handshake.
Reply(m) ==
  IF m.method = MethodPermission THEN PermissionBadParamsReply(m)
  ELSE IF m.method \in FsMethods THEN FileReply(m)
  ELSE ErrResp(m.id, MethodNotFound)

\* ---------------------------------------------------------------- Init
\* The goroutines in S have not called Stop yet.
StoppersInit(S) ==
  /\ stPc = [s \in S |-> "idle"]
  /\ stInst = [s \in S |-> 0]
  /\ stOverlap = [s \in S |-> FALSE]

\* NewProcess: status idle, no subprocess, empty tables.
ProcessInit ==
  /\ status = StatusIdle
  /\ cmd = 0 /\ stdin = 0 /\ stdout = 0 /\ stderr = 0
  /\ requestID = 0
  /\ pending = {}
  /\ chan = [id \in ReqIds |-> NoChan]
  /\ sends = [id \in ReqIds |-> 0]
  /\ perms = [t \in ToolIds |-> NoPerm]
  /\ permChan = [r \in Inst |-> "none"]
  /\ inst = [i \in Inst |-> "none"]
  /\ asked = 0
  /\ inbox = [i \in Inst |-> <<>>]
  /\ nextInst = 1
  /\ thKind = [c \in Callers |-> "none"]
  /\ thPc = [c \in Callers |-> "idle"]
  /\ thId = [c \in Callers |-> 0]
  /\ thRes = [c \in Callers |-> NoRes]
  /\ rlPc = [r \in Inst |-> "none"]
  /\ rlCap = [r \in Inst |-> 0]
  /\ rlMsg = [r \in Inst |-> NoMsg]
  /\ handled = NoLine
  /\ sdPc = [r \in Inst |-> "none"]
  /\ sdCap = [r \in Inst |-> 0]

\* No line has been read from any subprocess's stdout.
OrderInit ==
  /\ lineNo = [i \in Inst |-> 0]
  /\ rlLine = [r \in Inst |-> 0]
  /\ sink = <<>>

\* No permission decision has been taken.
OutcomeInit == optionID = <<>> /\ outcome = "none"

\* No Manager has been constructed.
NoManager ==
  /\ cfgAgents = <<>> /\ defaultAgent = ""
  /\ agents = <<>>
  /\ subOwner = <<>> /\ subState = <<>> /\ mgNext = 1
  /\ mcKind = <<>> /\ mcId = <<>> /\ mcPc = <<>> /\ mcRes = <<>>
  /\ sdnPc = "idle" /\ sdnLeft = {} /\ sdnCur = 0 /\ sdnOverlap = FALSE

\* The tool-call ids subprocesses use in their updates.
ToolCallIds == {"t1", "t2"}

NoEvent == [name |-> "none", payload |-> <<>>]

\* handleChat: a turn begins with no stream item, an empty text buffer and
\* an empty tool-call index.
TurnInit ==
  /\ streamItems = <<>>
  /\ currentText = <<>>
  /\ toolCallMap = [t \in ToolCallIds |-> 0]
  /\ agentCommands = <<>>
  /\ nEvents = 0
  /\ lastEvent = NoEvent
  /\ arrived = <<>>
  /\ nMsgs = 0

\* No read loop holds a pending entry.
DeliverInit == rlFound = [r \in Inst |-> 0]

\* No response has been read.
NoLineAt == [pipe |-> 0, no |-> 0]
ReturnInit == respAt = [id \in ReqIds |-> NoLineAt]

\* No permission request has arrived.
PermInit ==
  /\ hpPc = "idle" /\ hpN = 0
  /\ reqToolCallID = "" /\ toolCallID = "" /\ surfaced = "none"
  /\ permissions = {}
  /\ respCh = ""
  /\ decided = ""
  /\ answers = <<>>

\* A Server whose agent has not been used yet.
ChatInit ==
  /\ initialized = FALSE /\ sessionID = FALSE
  /\ chPc = "idle" /\ nChats = 0
  /\ agStatus = "idle" /\ agCur = 0
  /\ agAlive = <<FALSE, FALSE, FALSE>>
  /\ agLog = <<<<>>, <<>>, <<>>>>
  /\ agNext = 1

ExtInit ==
  /\ OrderInit /\ OutcomeInit /\ NoManager /\ TurnInit
  /\ DeliverInit /\ ReturnInit /\ PermInit /\ ChatInit

Init == ProcessInit /\ StoppersInit(Stoppers) /\ ExtInit

\* A Start or Request call is between its first step and its last write to
\* the Process (a caller blocked on its Result channel is not).
Busy == \E c \in Callers : thPc[c] \in {"spawn", "register", "write"}

\* A call that begins while a Stop is between its critical section and its
\* return overlaps that Stop.
NoteOverlap == [s \in DOMAIN stOverlap |-> stOverlap[s] \/ stPc[s] = "wait"]

\* ---------------------------------------------------------------- Start
\* A Start that goes on to spawn whatever the status.
StartNoopNever == FALSE

\* Start, lines 117-123: no-op when Running, else status = Starting.
StartNoop == status = StatusRunning

\* Where a caller goes when its Start returns nil.
AfterStart(kind) == IF kind = "request" THEN "register" ELSE "done"

StartBeginEffect(c, kind) ==
  IF StartNoop
    THEN /\ thPc' = [thPc EXCEPT ![c] = AfterStart(kind)]
         /\ thRes' = IF kind = "start"
                       THEN [thRes EXCEPT ![c] = [tag |-> "ok", id |-> 0]]
                       ELSE thRes
         /\ UNCHANGED status
    ELSE /\ status' = StatusStarting
         /\ thPc' = [thPc EXCEPT ![c] = "spawn"]
         /\ UNCHANGED thRes

\* A caller invokes Process.Start.
StartCall(c) ==
  /\ thPc[c] = "idle"
  /\ thKind' = [thKind EXCEPT ![c] = "start"]
  /\ StartBeginEffect(c, "start")
  /\ stOverlap' = NoteOverlap
  /\ UNCHANGED <<extVars, cmd, stdin, stdout, stderr, reqVars, permVars, instVars, inbox,
                 thId, stPc, stInst, rlVars, sdVars>>

\* A Start that returns the failure and leaves the status as it is.
StartSpawnFailKeepsStarting(c) ==
  /\ thPc[c] = "spawn"
  /\ thPc' = [thPc EXCEPT ![c] = "done"]
  /\ thRes' = [thRes EXCEPT ![c] = [tag |-> "spawnerr", id |-> 0]]
  /\ UNCHANGED <<extVars, procVars, reqVars, permVars, instVars, inbox,
                 thKind, thId, stVars, rlVars, sdVars>>

\* Start, lines 134-156: a pipe or spawn failure sets Error and returns it.
StartSpawnFail(c) ==
  /\ thPc[c] = "spawn"
  /\ status' = StatusError
  /\ thPc' = [thPc EXCEPT ![c] = "done"]
  /\ thRes' = [thRes EXCEPT ![c] = [tag |-> "spawnerr", id |-> 0]]
  /\ UNCHANGED <<extVars, cmd, stdin, stdout, stderr, reqVars, permVars, instVars, inbox,
                 thKind, thId, stVars, rlVars, sdVars>>

\* Start, lines 153-168: the subprocess is spawned, its handles installed,
\* status = Running, and the read loop and the stderr drain are launched.
StartSpawnOk(c) ==
  /\ thPc[c] = "spawn"
  /\ nextInst <= MaxInst
  /\ LET i == nextInst IN
       /\ inst' = [inst EXCEPT ![i] = "alive"]
       /\ nextInst' = i + 1
       /\ cmd' = i /\ stdin' = i /\ stdout' = i /\ stderr' = i
       /\ status' = StatusRunning
       /\ rlPc' = [rlPc EXCEPT ![i] = "init"]
       /\ sdPc' = [sdPc EXCEPT ![i] = "init"]
  /\ thPc' = [thPc EXCEPT ![c] = AfterStart(thKind[c])]
  /\ thRes' = IF thKind[c] = "start"
                THEN [thRes EXCEPT ![c] = [tag |-> "ok", id |-> 0]]
                ELSE thRes
  /\ UNCHANGED <<extVars, reqVars, permVars, asked, inbox, thKind, thId, stVars,
                 rlCap, rlMsg, handled, sdCap>>

\* ---------------------------------------------------------------- Stop
\* A Stop that deletes the entries without closing their channels.
StopChansOpen == chan

\* Stop, lines 210-214: every pending Result channel is closed ...
StopChans == [id \in ReqIds |-> IF id \in pending THEN ClosedChan ELSE chan[id]]

\* A Stop that closes the channels and leaves the entries in the table.
StopPendingKept == pending

\* ... and every pending entry deleted.
StopPending == {}

\* Stop, line 208.
StopStatus == StatusStopped

\* A Stop that sets Stopped even when it finds no subprocess.
StopAlwaysStops(s) ==
  /\ stPc[s] = "idle"
  /\ cmd = 0
  /\ status' = StatusStopped
  /\ stPc' = [stPc EXCEPT ![s] = "done"]
  /\ UNCHANGED <<extVars, cmd, stdin, stdout, stderr, reqVars, permVars, instVars, inbox,
                 thVars, stInst, stOverlap, rlVars, sdVars>>

\* Stop, lines 195-215: no-op without a subprocess; else snapshot, clear
\* cmd/stdin/stdout, set Stopped, reject the pending requests.
StopNoop(s) ==
  /\ stPc[s] = "idle"
  /\ cmd = 0
  /\ stPc' = [stPc EXCEPT ![s] = "done"]
  /\ UNCHANGED <<extVars, procVars, reqVars, permVars, instVars, inbox, thVars, stInst,
                 stOverlap, rlVars, sdVars>>

StopClear(s) ==
  /\ stPc[s] = "idle"
  /\ cmd # 0
  /\ stInst' = [stInst EXCEPT ![s] = cmd]
  /\ cmd' = 0 /\ stdin' = 0 /\ stdout' = 0
  /\ status' = StopStatus
  /\ chan' = StopChans
  /\ pending' = StopPending
  /\ stPc' = [stPc EXCEPT ![s] = "wait"]
  /\ stOverlap' = [stOverlap EXCEPT ![s] = Busy]
  /\ UNCHANGED <<extVars, stderr, requestID, sends, permVars, instVars, inbox, thVars,
                 rlVars, sdVars>>

\* Stop, lines 217-240: stdin closed, interrupt, wait (kill after the grace
\* period): the snapshotted subprocess has exited and been waited for.
StopWait(s) ==
  /\ stPc[s] = "wait"
  /\ inst' = [inst EXCEPT ![stInst[s]] = "exited"]
  /\ stPc' = [stPc EXCEPT ![s] = "done"]
  /\ UNCHANGED <<extVars, procVars, reqVars, permVars, asked, nextInst, inbox,
                 thVars, stInst, stOverlap, rlVars, sdVars>>

\* ---------------------------------------------------------------- write
\* write, lines 319-336: fails when stdin is nil; a write to the pipe of a
\* subprocess that has exited fails too (broken pipe).
CanWrite == stdin # 0 /\ inst[stdin] = "alive"

Written(msg) ==
  IF CanWrite THEN [inbox EXCEPT ![stdin] = Append(@, msg)] ELSE inbox

\* ---------------------------------------------------------------- Request
\* Request, lines 262-266, with Start lines 117-123 when Start is called:
\* a Running process goes straight to registration; otherwise Start sets
\* Starting (a status that turned Running between the two reads makes
\* Start return nil, which is the first case taken later).
RequestCheck(c) ==
  /\ thPc[c] = "idle"
  /\ thKind' = [thKind EXCEPT ![c] = "request"]
  /\ StartBeginEffect(c, "request")
  /\ stOverlap' = NoteOverlap
  /\ UNCHANGED <<extVars, cmd, stdin, stdout, stderr, reqVars, permVars, instVars, inbox,
                 thId, stPc, stInst, rlVars, sdVars>>

\* An allocation that takes the first id above the size of the table.
NextRequestIDFromTable == Cardinality(pending) + 1

\* Request, lines 269-270: p.requestID++.
NextRequestID == requestID + 1

\* Request, lines 268-273: the next id is allocated and registered with a
\* fresh one-slot Result channel.
RequestRegister(c) ==
  /\ thPc[c] = "register"
  /\ requestID < NCallers
  /\ LET id == NextRequestID IN
       /\ requestID' = id
       /\ thId' = [thId EXCEPT ![c] = id]
       /\ pending' = pending \cup {id}
       /\ chan' = [chan EXCEPT ![id] = EmptyChan]
  /\ thPc' = [thPc EXCEPT ![c] = "write"]
  /\ UNCHANGED <<extVars, procVars, sends, permVars, instVars, inbox, thKind, thRes,
                 stVars, rlVars, sdVars>>

\* Request, lines 275-281: the request line is written; on a write failure
\* the entry is deleted and the failure returned.
RequestWrite(c) ==
  /\ thPc[c] = "write"
  /\ IF CanWrite
       THEN /\ thPc' = [thPc EXCEPT ![c] = "wait"]
            /\ UNCHANGED <<pending, thRes>>
       ELSE /\ pending' = pending \ {thId[c]}
            /\ thPc' = [thPc EXCEPT ![c] = "done"]
            /\ thRes' = [thRes EXCEPT ![c] = [tag |-> "writeerr", id |-> 0]]
  /\ UNCHANGED <<extVars, procVars, requestID, chan, sends, permVars, instVars, inbox,
                 thKind, thId, stVars, rlVars, sdVars>>

\* Request, lines 284-293: what the receive on the Result channel returns:
\* closed -> "request cancelled", a message with an error object -> that
\* error, else the message.
Received(ch) ==
  IF ch.st = "closed" THEN [tag |-> "cancelled", id |-> 0]
  ELSE IF ch.err THEN [tag |-> "remote", id |-> ch.val]
  ELSE [tag |-> "ok", id |-> ch.val]

RequestWait(c) ==
  /\ thPc[c] = "wait"
  /\ chan[thId[c]].st \in {"full", "closed"}
  /\ thRes' = [thRes EXCEPT ![c] = Received(chan[thId[c]])]
  /\ chan' = [chan EXCEPT ![thId[c]] =
                IF @.st = "full" THEN [@ EXCEPT !.st = "taken"] ELSE @]
  /\ thPc' = [thPc EXCEPT ![c] = "done"]
  /\ UNCHANGED <<extVars, procVars, requestID, pending, sends, permVars, instVars, inbox,
                 thKind, thId, stVars, rlVars, sdVars>>

\* ---------------------------------------------------------------- subprocess
\* The lines a subprocess can write to its stdout: a response carrying any
\* id, a notification, or a session/request_permission reverse request (the
\* subprocess's request id for it is NTools + the tool-call id).
PlainLines == {RespLine(id) : id \in ReqIds} \cup {NotifLine}

Lines == PlainLines \cup {PermLine(t, NTools + t) : t \in ToolIds}

\* The subprocess exits on its own.
InstExit(i) ==
  /\ inst[i] = "alive"
  /\ inst' = [inst EXCEPT ![i] = "exited"]
  /\ UNCHANGED <<extVars, procVars, reqVars, permVars, asked, nextInst, inbox,
                 thVars, stVars, rlVars, sdVars>>

\* ---------------------------------------------------------------- readLoop
\* readLoop, lines 340-346: the loop captures p.stdout when it first runs,
\* and returns at once when that is nil.
ReadLoopCapture(r) ==
  /\ rlPc[r] = "init"
  /\ rlCap' = [rlCap EXCEPT ![r] = stdout]
  /\ rlPc' = [rlPc EXCEPT ![r] = IF stdout = 0 THEN "nil" ELSE "read"]
  /\ UNCHANGED <<extVars, procVars, reqVars, permVars, instVars, inbox, thVars, stVars,
                 rlMsg, handled, sdVars>>

\* A lookup that takes the oldest pending entry instead of the one keyed by
\* the response's id.
PendingForOldest(id) ==
  IF pending = {} THEN 0 ELSE CHOOSE e \in pending : \A x \in pending : e <= x

\* handleMessage, lines 381-386: the pending entry a response resolves
\* (0 when there is none).
PendingFor(id) == IF id \in pending THEN id ELSE 0

\* A lookup that leaves the entry in the table.
PendingAfterKept(e) == pending

\* handleMessage, lines 383-385: the table after the lookup.
PendingAfter(e) == pending \ {e}

\* readLoop / handleMessage, lines 353-406: scanner.Scan() yields the next
\* line of the captured pipe (whatever the subprocess wrote, also what was
\* still buffered when it exited) and the line is handled.  A response
\* resolves its pending entry or is dropped; a permission request invokes
\* the onPermission callback (lines 426-440); a notification is handed to
\* onNotification.
Scan(r, L) ==
  /\ rlPc[r] = "read"
  /\ \E l \in L :
      LET e == PendingFor(l.id) IN
       /\ l.k = "perm" => asked < MaxPerms
       /\ asked' = IF l.k = "perm" THEN asked + 1 ELSE asked
       /\ IF l.k = "resp" /\ e # 0
            THEN /\ pending' = PendingAfter(e)
                 /\ chan' = [chan EXCEPT ![e] = FullChan(l.id)]
                 /\ sends' = [sends EXCEPT ![e] = @ + 1]
            ELSE UNCHANGED <<pending, chan, sends>>
       /\ IF l.k = "perm"
            THEN /\ rlMsg' = [rlMsg EXCEPT ![r] = [tool |-> l.tool, rid |-> l.id]]
                 /\ rlPc' = [rlPc EXCEPT ![r] = "permreg"]
            ELSE UNCHANGED <<rlMsg, rlPc>>
  /\ UNCHANGED <<extVars, procVars, requestID, permVars, inst, nextInst, inbox,
                 thVars, stVars, rlCap, handled, sdVars>>

ReadLoopScan(r) == Scan(r, Lines)

\* The same step for a subprocess that asks for no permission.
ReadLoopScanPlain(r) == Scan(r, PlainLines)

\* handlePermissionRequest, lines 443-449: a fresh Response channel is
\* registered under the tool-call id; the loop then blocks on it.
PermRegister(r) ==
  /\ rlPc[r] = "permreg"
  /\ perms' = [perms EXCEPT ![rlMsg[r].tool] = [ch |-> r, rid |-> rlMsg[r].rid]]
  /\ permChan' = [permChan EXCEPT ![r] = "none"]
  /\ rlPc' = [rlPc EXCEPT ![r] = "permwait"]
  /\ UNCHANGED <<extVars, procVars, reqVars, instVars, inbox, thVars, stVars, rlCap,
                 rlMsg, handled, sdVars>>

\* handlePermissionRequest, lines 451-465: the option id arrives; the
\* response carrying it is written (p.write, to the current stdin).
PermAnswer(r) ==
  /\ rlPc[r] = "permwait"
  /\ permChan[r] # "none"
  /\ inbox' = Written(PermResp(rlMsg[r].rid, permChan[r]))
  /\ permChan' = [permChan EXCEPT ![r] = "none"]
  /\ rlMsg' = [rlMsg EXCEPT ![r] = NoMsg]
  /\ rlPc' = [rlPc EXCEPT ![r] = "read"]
  /\ UNCHANGED <<extVars, procVars, reqVars, perms, instVars, thVars, stVars, rlCap,
                 handled, sdVars>>

\* A check of the captured handle alone, with no comparison to p.stdout.
StillCurrentNilCheck(cap) == cap # 0

\* readLoop, lines 370-375: the identity rule.
StillCurrent(cap) == stdout = cap \/ stdout = 0

\* readLoop, lines 353 and 370-375: the scan ends at EOF or on a read error,
\* once the subprocess is gone; Stopped is set under the identity rule.
ScanEnds(i) == inst[i] = "exited"

ReadLoopEnd(r) ==
  /\ rlPc[r] = "read"
  /\ ScanEnds(rlCap[r])
  /\ IF StillCurrent(rlCap[r])
       THEN /\ status' = StatusStopped
            /\ rlPc' = [rlPc EXCEPT ![r] = "ended"]
       ELSE /\ UNCHANGED status
            /\ rlPc' = [rlPc EXCEPT ![r] = "stale"]
  /\ UNCHANGED <<extVars, cmd, stdin, stdout, stderr, reqVars, permVars, instVars, inbox,
                 thVars, stVars, rlCap, rlMsg, handled, sdVars>>

\* ---------------------------------------------------------------- readStderr
\* readStderr, lines 173-179: the drain captures p.stderr when it first runs.
StderrCapture(r) ==
  /\ sdPc[r] = "init"
  /\ sdCap' = [sdCap EXCEPT ![r] = stderr]
  /\ sdPc' = [sdPc EXCEPT ![r] = IF stderr = 0 THEN "nil" ELSE "read"]
  /\ UNCHANGED <<extVars, procVars, reqVars, permVars, instVars, inbox, thVars, stVars,
                 rlVars>>

\* readStderr, lines 181-190: the drain reads until the pipe fails.
StderrEnd(r) ==
  /\ sdPc[r] = "read"
  /\ inst[sdCap[r]] # "alive"
  /\ sdPc' = [sdPc EXCEPT ![r] = "ended"]
  /\ UNCHANGED <<extVars, procVars, reqVars, permVars, instVars, inbox, thVars, stVars,
                 rlVars, sdCap>>

\* ---------------------------------------------------------------- ConfirmPermission
\* A ConfirmPermission that answers without deleting the entry.
PermsAfterConfirmKept(t) == perms

\* ConfirmPermission, lines 298-303: the table after the lookup.
PermsAfterConfirm(t) == [perms EXCEPT ![t] = NoPerm]

\* ConfirmPermission, lines 297-308: the entry is looked up and deleted, and
\* the option id pushed onto its channel; nothing happens without an entry.
ConfirmPermission(t, o) ==
  /\ IF perms[t].ch # 0
       THEN /\ perms' = PermsAfterConfirm(t)
            /\ permChan' = [permChan EXCEPT ![perms[t].ch] = o]
       ELSE UNCHANGED <<perms, permChan>>
  /\ UNCHANGED <<extVars, procVars, reqVars, instVars, inbox, thVars, stVars, rlVars,
                 sdVars>>

\* ---------------------------------------------------------------- handleMessage
\* The lines of a subprocess that starts no permission handshake: an
\* undecodable line, responses with and without an error object, a
\* notification, a message with neither id nor method, and reverse requests
\* (they reuse the id 1, which a pending request can hold too): a permission
\* request whose params do not decode, file requests, an unknown method.
ResponseLines ==
  {Decoded(Message(TRUE, id, "", e, "ok", "ok")) : id \in ReqIds, e \in BOOLEAN}

ReverseLines ==
  {Decoded(Message(TRUE, 1, MethodPermission, FALSE, "bad", "ok")),
   Decoded(Message(TRUE, 1, "x/unknown", FALSE, "ok", "ok"))}
  \cup {Decoded(Message(TRUE, 1, f, FALSE, "bad", "ok")) : f \in FsMethods}
  \cup {Decoded(Message(TRUE, 1, MethodReadFile, FALSE, "ok", io)) : io \in {"ok", "fail"}}

MsgLines ==
  {Undecodable,
   Decoded(Message(FALSE, 0, "session/update", FALSE, "ok", "ok")),
   Decoded(Message(FALSE, 0, "", FALSE, "ok", "ok"))}
  \cup ResponseLines \cup ReverseLines

\* handleMessage, line 389: the message is sent on the Result channel.
Delivered(m) == IF m.err THEN ErrChan(m.id) ELSE FullChan(m.id)

\* readLoop lines 353-368 with handleMessage, handleRequest and the file
\* handlers: one line is scanned and handled.  A response resolves its
\* pending entry or is dropped, a reverse request is answered through
\* p.write, a notification goes to onNotification, anything else is
\* skipped; the loop goes on to the next line.
HandleMessage(r) ==
  /\ rlPc[r] = "read"
  /\ \E l \in MsgLines :
      LET as == HandledAs(l)
          e == IF as = "response" THEN PendingFor(l.m.id) ELSE 0
      IN
       /\ as = "request" => asked < MaxReverse
       /\ asked' = IF as = "request" THEN asked + 1 ELSE asked
       /\ IF e # 0
            THEN /\ pending' = PendingAfter(e)
                 /\ chan' = [chan EXCEPT ![e] = Delivered(l.m)]
                 /\ sends' = [sends EXCEPT ![e] = @ + 1]
            ELSE UNCHANGED <<pending, chan, sends>>
       /\ inbox' = IF as = "request" /\ Reply(l.m) # NoReply
                     THEN Written(Reply(l.m))
                     ELSE inbox
       /\ handled' = [line |-> l, as |-> as]
  /\ UNCHANGED <<extVars, procVars, requestID, permVars, inst, nextInst,
                 thVars, stVars, rlPc, rlCap, rlMsg, sdVars>>

\* ---------------------------------------------------------------- Notify
\* A Notify that writes whatever the status.
NotifyDropsNever == FALSE

\* Notify, lines 312-314: anything but Running returns nil at once.
NotifyDrops == status # StatusRunning

NotifyCheck(c) ==
  /\ thPc[c] = "idle"
  /\ thKind' = [thKind EXCEPT ![c] = "notify"]
  /\ IF NotifyDrops
       THEN /\ thPc' = [thPc EXCEPT ![c] = "done"]
            /\ thRes' = [thRes EXCEPT ![c] = [tag |-> "ok", id |-> 0]]
       ELSE /\ thPc' = [thPc EXCEPT ![c] = "nwrite"]
            /\ UNCHANGED thRes
  /\ UNCHANGED <<extVars, procVars, reqVars, permVars, instVars, inbox, thId, stVars,
                 rlVars, sdVars>>

\* Notify, lines 315-316: the notification is written, and the write's
\* error is what Notify returns.
NotifyWrite(c) ==
  /\ thPc[c] = "nwrite"
  /\ inbox' = Written(NotifMsg)
  /\ thRes' = [thRes EXCEPT ![c] =
                 [tag |-> IF CanWrite THEN "ok" ELSE "writeerr", id |-> 0]]
  /\ thPc' = [thPc EXCEPT ![c] = "done"]
  /\ UNCHANGED <<extVars, procVars, reqVars, permVars, instVars, thKind, thId, stVars,
                 rlVars, sdVars>>

\* ---------------------------------------------------------------- Next
Next ==
  \/ \E c \in Callers : StartCall(c)
  \/ \E c \in Callers : StartSpawnFail(c)
  \/ \E c \in Callers : StartSpawnOk(c)
  \/ \E s \in Stoppers : StopNoop(s)
  \/ \E s \in Stoppers : StopClear(s)
  \/ \E s \in Stoppers : StopWait(s)
  \/ \E c \in Callers : RequestCheck(c)
  \/ \E c \in Callers : RequestRegister(c)
  \/ \E c \in Callers : RequestWrite(c)
  \/ \E c \in Callers : RequestWait(c)
  \/ \E i \in Inst : InstExit(i)
  \/ \E r \in Inst : ReadLoopCapture(r)
  \/ \E r \in Inst : ReadLoopScan(r)
  \/ \E r \in Inst : PermRegister(r)
  \/ \E r \in Inst : PermAnswer(r)
  \/ \E r \in Inst : ReadLoopEnd(r)
  \/ \E t \in ToolIds, o \in Options : ConfirmPermission(t, o)

Spec == Init /\ [][Next]_vars

\* The Go scheduler runs every runnable goroutine: a caller whose receive on
\* its Result channel can proceed does proceed.
\* Start, Stop, Request and the read loop, for subprocesses that ask for no
\* permission.
CoreNext ==
  \/ \E c \in Callers : StartCall(c)
  \/ \E c \in Callers : StartSpawnFail(c)
  \/ \E c \in Callers : StartSpawnOk(c)
  \/ \E s \in Stoppers : StopNoop(s)
  \/ \E s \in Stoppers : StopClear(s)
  \/ \E s \in Stoppers : StopWait(s)
  \/ \E c \in Callers : RequestCheck(c)
  \/ \E c \in Callers : RequestRegister(c)
  \/ \E c \in Callers : RequestWrite(c)
  \/ \E c \in Callers : RequestWait(c)
  \/ \E i \in Inst : InstExit(i)
  \/ \E r \in Inst : ReadLoopCapture(r)
  \/ \E r \in Inst : ReadLoopScanPlain(r)
  \/ \E r \in Inst : ReadLoopEnd(r)

\* The Go scheduler runs every runnable goroutine: a caller whose receive on
\* its Result channel can proceed does proceed.
FairSpec ==
  Init /\ [][CoreNext]_vars /\ \A c \in Callers : WF_vars(RequestWait(c))

\* Start, Stop, subprocess exit, and both goroutines a Start launches.
DrainNext ==
  \/ \E c \in Callers : StartCall(c)
  \/ \E c \in Callers : StartSpawnFail(c)
  \/ \E c \in Callers : StartSpawnOk(c)
  \/ \E s \in Stoppers : StopNoop(s)
  \/ \E s \in Stoppers : StopClear(s)
  \/ \E s \in Stoppers : StopWait(s)
  \/ \E i \in Inst : InstExit(i)
  \/ \E r \in Inst : ReadLoopCapture(r)
  \/ \E r \in Inst : ReadLoopEnd(r)
  \/ \E r \in Inst : StderrCapture(r)
  \/ \E r \in Inst : StderrEnd(r)

DrainSpec == Init /\ [][DrainNext]_vars

\* Request, Stop and the read loop, for a subprocess that writes any of
\* MsgLines and exits only when stopped.
MsgNext ==
  \/ \E c \in Callers : RequestCheck(c)
  \/ \E c \in Callers : StartSpawnOk(c)
  \/ \E c \in Callers : RequestRegister(c)
  \/ \E c \in Callers : RequestWrite(c)
  \/ \E c \in Callers : RequestWait(c)
  \/ \E s \in Stoppers : StopNoop(s)
  \/ \E s \in Stoppers : StopClear(s)
  \/ \E s \in Stoppers : StopWait(s)
  \/ \E r \in Inst : ReadLoopCapture(r)
  \/ \E r \in Inst : HandleMessage(r)
  \/ \E r \in Inst : ReadLoopEnd(r)

MsgSpec == Init /\ [][MsgNext]_vars

\* Start, Notify, Stop, subprocess exit and the read loop.
NotifyNext ==
  \/ \E c \in Callers : StartCall(c)
  \/ \E c \in Callers : StartSpawnFail(c)
  \/ \E c \in Callers : StartSpawnOk(c)
  \/ \E c \in Callers : NotifyCheck(c)
  \/ \E c \in Callers : NotifyWrite(c)
  \/ \E s \in Stoppers : StopNoop(s)
  \/ \E s \in Stoppers : StopClear(s)
  \/ \E s \in Stoppers : StopWait(s)
  \/ \E i \in Inst : InstExit(i)
  \/ \E r \in Inst : ReadLoopCapture(r)
  \/ \E r \in Inst : ReadLoopEnd(r)

NotifySpec == Init /\ [][NotifyNext]_vars

\* Start, Request, subprocess exit and the read loop, with one more
\* goroutine calling Stop.
StopNext ==
  \/ \E c \in Callers : StartCall(c)
  \/ \E c \in Callers : StartSpawnFail(c)
  \/ \E c \in Callers : StartSpawnOk(c)
  \/ \E s \in AllStoppers : StopNoop(s)
  \/ \E s \in AllStoppers : StopClear(s)
  \/ \E s \in AllStoppers : StopWait(s)
  \/ \E c \in Callers : RequestCheck(c)
  \/ \E c \in Callers : RequestRegister(c)
  \/ \E c \in Callers : RequestWrite(c)
  \/ \E c \in Callers : RequestWait(c)
  \/ \E i \in Inst : InstExit(i)
  \/ \E r \in Inst : ReadLoopCapture(r)
  \/ \E r \in Inst : ReadLoopEnd(r)

StopInit == ProcessInit /\ StoppersInit(AllStoppers) /\ ExtInit

StopSpec == StopInit /\ [][StopNext]_vars

\* ---------------------------------------------------------------- claims

\* C1: every Request that is resolved with a message gets the response that
\* carries the id allocated to it, whatever the order in which the responses
\* arrive, and no Result channel is sent on more than once.
C1_OwnResponse ==
  /\ \A c \in Callers :
       thKind[c] = "request" /\ thRes[c].tag = "ok" => thRes[c].id = thId[c]
  /\ \A id \in ReqIds : chan[id].st \in {"full", "taken"} => chan[id].val = id
  /\ \A id \in ReqIds : sends[id] <= 1

\* Two requests are outstanding and the later one was answered first.
C1_Reordered ==
  \E c1, c2 \in Callers :
    /\ thId[c1] = 1 /\ thPc[c1] = "wait" /\ 1 \in pending
    /\ thId[c2] = 2 /\ thPc[c2] = "done" /\ thRes[c2] = [tag |-> "ok", id |-> 2]

\* A caller blocked on its Result channel whose entry is no longer in the
\* pending table and who was sent no response: Stop removed the entry.
StoppedWhileWaiting(c) ==
  /\ thPc[c] = "wait"
  /\ thId[c] \notin pending
  /\ chan[thId[c]].st # "full"

\* C2: a caller whose request was outstanding when Stop ran eventually
\* returns, and what it returns is the "request cancelled" failure.
C2_StopCancels ==
  \A c \in Callers :
    StoppedWhileWaiting(c) ~> (thPc[c] = "done" /\ thRes[c].tag = "cancelled")

\* Stop ran while every caller had a request outstanding, and every caller
\* has returned "request cancelled".
C2_AllCancelled ==
  \A c \in Callers : thPc[c] = "done" /\ thRes[c].tag = "cancelled"

\* C3: once the subprocess is gone and its read loop has ended (setting
\* Stopped), no caller is left blocked on a request still in the pending
\* table.
C3_ExitResolvesPending ==
  (status = StatusStopped /\ \E r \in Inst : rlPc[r] = "ended")
    => \A c \in Callers : ~(thPc[c] = "wait" /\ thId[c] \in pending)

\* A step in which a Stop call returns.
StopReturns(s) == StopNoop(s) \/ StopWait(s)

\* C4 as stated: the status is always one of the five, and whenever a Stop
\* call returns the status is Stopped and the pending table empty.
C4_EveryStopEndsStopped ==
  /\ [](status \in Statuses)
  /\ [][\A s \in Stoppers :
          StopReturns(s) => status' = StatusStopped /\ pending' = {}]_vars

\* C4 amended: the status is always one of the five; when a Stop call that
\* found a subprocess returns, and no Start or Request call overlapped it,
\* the status is Stopped and the pending table empty.
C4_StopEndsStopped ==
  /\ [](status \in Statuses)
  /\ [][\A s \in Stoppers :
          StopWait(s) /\ ~stOverlap[s]
            => status' = StatusStopped /\ pending' = {}]_vars

\* A Stop that cancelled an outstanding request has returned, with no Start
\* or Request call overlapping it.
C4_StoppedWithWaiter ==
  \E s \in Stoppers, c \in Callers :
    /\ stPc[s] = "done" /\ stInst[s] # 0 /\ ~stOverlap[s]
    /\ thId[c] # 0 /\ chan[thId[c]].st = "closed"
    /\ status = StatusStopped

\* C5: a read loop whose scan ends takes the Stopped branch only if the
\* handle it captured is still p.stdout or p.stdout is nil; a loop whose
\* handle has been replaced by a newer Start's leaves the status alone.
C5_IdentityRule ==
  [][\A r \in Inst :
       ReadLoopEnd(r) =>
         /\ rlPc'[r] = "ended" => (stdout = rlCap[r] \/ stdout = 0)
         /\ (stdout # 0 /\ stdout # rlCap[r]) => status' = status]_vars

\* The read loop of an earlier subprocess ended after a newer Start had
\* installed its pipes, and the status is still Running.
C5_StaleLoopEnded ==
  \E r \in Inst :
    rlPc[r] = "stale" /\ stdout # 0 /\ stdout # rlCap[r] /\ status = StatusRunning

\* The status changes the data model allows.
AllowedChange(a, b) ==
  \/ b = StatusStarting /\ a \in {StatusIdle, StatusError, StatusStopped}
  \/ a = StatusStarting /\ b \in {StatusRunning, StatusError}
  \/ a = StatusRunning /\ b = StatusStopped

\* C6: every change of the status is to Starting (from Idle, Error or
\* Stopped), Starting to Running, Starting to Error, or Running to Stopped.
C6_Transitions == [][status' # status => AllowedChange(status, status')]_vars

\* C7: a read loop reads the stdout, and a stderr drain the stderr, of the
\* subprocess spawned by the Start that launched it, and no pipe has two
\* read loops.
C7_OwnPipes ==
  /\ \A r \in Inst : rlPc[r] = "read" => rlCap[r] = r
  /\ \A r \in Inst : sdPc[r] = "read" => sdCap[r] = r
  /\ \A r1, r2 \in Inst :
       rlPc[r1] = "read" /\ rlPc[r2] = "read" /\ r1 # r2 => rlCap[r1] # rlCap[r2]

\* Some PendingPermission of the Process is unanswered.
PermissionPending == \E t \in ToolIds : perms[t].ch # 0

\* C8: while a PendingPermission is unanswered no read loop of the Process
\* handles a line with an effect, and the table never holds two entries.
C8_OnePermission ==
  /\ [](Cardinality({t \in ToolIds : perms[t].ch # 0}) <= 1)
  /\ [][PermissionPending => ~(\E r \in Inst : ReadLoopScan(r))]_vars

\* What ConfirmPermission does to the table and the channel of an entry.
ConfirmRemoves(t, o) ==
  perms[t].ch # 0 /\ ConfirmPermission(t, o)
    => /\ perms'[t] = NoPerm
       /\ rlPc[perms[t].ch] = "permwait"
       /\ rlMsg[perms[t].ch] = [tool |-> t, rid |-> perms[t].rid]
       /\ permChan'[perms[t].ch] = o
       /\ \A u \in ToolIds \ {t} : perms'[u] = perms[u]

\* ConfirmPermission without an entry changes nothing.
ConfirmMissingNoop(t, o) ==
  perms[t].ch = 0 /\ ConfirmPermission(t, o) => UNCHANGED vars

\* A step that touches the permission table, a Response channel or a stdin.
PermStep == perms' # perms \/ permChan' # permChan \/ inbox' # inbox

\* The response a read loop owes for the permission request it serves.
Owed(r) == [k |-> "result", id |-> rlMsg[r].rid, opt |-> permChan[r]]

\* The unblocked read loop writes exactly one response to a subprocess.
AnswerWritten(r) ==
  PermAnswer(r) =>
    \E i \in Inst :
      /\ inbox'[i] = Append(inbox[i], Owed(r))
      /\ \A j \in Inst \ {i} : inbox'[j] = inbox[j]

\* The unblocked read loop writes exactly one response when p.stdin is the
\* pipe of a live subprocess, and none otherwise.
AnswerWrittenIfAlive(r) ==
  PermAnswer(r) =>
    IF stdin # 0 /\ inst[stdin] = "alive"
      THEN /\ inbox'[stdin] = Append(inbox[stdin], Owed(r))
           /\ \A j \in Inst \ {stdin} : inbox'[j] = inbox[j]
      ELSE inbox' = inbox

\* An option id is on a Response channel only while its read loop waits.
AnswerAwaited ==
  \A r \in Inst : permChan[r] # "none" => rlPc[r] = "permwait"

\* C9 as stated: ConfirmPermission for a pending tool-call id removes the
\* entry and makes the read loop write exactly one response, carrying the
\* reverse request's id and the option id; without an entry it changes
\* nothing.
C9_ConfirmAnswers ==
  /\ []AnswerAwaited
  /\ [][PermStep =>
          /\ \A t \in ToolIds, o \in Options :
               ConfirmRemoves(t, o) /\ ConfirmMissingNoop(t, o)
          /\ \A r \in Inst : AnswerWritten(r)]_vars

\* C9 amended: as above, but the response is written (once) only if the
\* Process has a stdin whose subprocess is alive when the read loop writes.
C9_ConfirmAnswersIfAlive ==
  /\ []AnswerAwaited
  /\ [][PermStep =>
          /\ \A t \in ToolIds, o \in Options :
               ConfirmRemoves(t, o) /\ ConfirmMissingNoop(t, o)
          /\ \A r \in Inst : AnswerWrittenIfAlive(r)]_vars

\* A confirmed decision has been written to the subprocess that asked.
C9_Answered ==
  \E i \in Inst : \E t \in ToolIds :
    /\ inbox[i] = <<[k |-> "result", id |-> NTools + t, opt |-> "reject_once"]>>
    /\ rlCap[i] = i /\ rlPc[i] = "read"
    /\ perms[t] = NoPerm

\* C10: once a Stop that found a subprocess has returned, no permission
\* entry of that subprocess's read loop remains and that read loop is not
\* blocked waiting for a decision.
C10_StopClearsPermissions ==
  \A s \in Stoppers :
    stPc[s] = "done" /\ stInst[s] # 0 =>
      \A r \in Inst :
        rlCap[r] = stInst[s] =>
          /\ rlPc[r] # "permwait"
          /\ \A t \in ToolIds : perms[t].ch # r

\* A reverse request that cannot be served: an unknown method, params that
\* do not decode, or a file operation that fails.
Unservable(m) ==
  \/ m.method \notin {MethodPermission} \cup FsMethods
  \/ m.params = "bad"
  \/ m.method \in FsMethods /\ m.io = "fail"

\* A step in which a read loop handles a reverse request.
ReverseHandled == asked' = asked + 1 /\ handled'.as = "request"

\* C11: a reverse request that cannot be served is answered, while the
\* subprocess can be written to, with exactly one error response carrying
\* the request's id (method-not-found for an unknown method), and status,
\* pending table and Result channels are left alone.
C11_UnservedGetsError ==
  [][ReverseHandled /\ Unservable(handled'.line.m) /\ CanWrite =>
       /\ \E code \in {MethodNotFound, InvalidParams, InternalError} :
            /\ inbox'[stdin] = Append(inbox[stdin], ErrResp(handled'.line.m.id, code))
            /\ handled'.line.m.method \notin {MethodPermission} \cup FsMethods
                 => code = MethodNotFound
       /\ status' = status /\ pending' = pending /\ chan' = chan]_vars

\* What a returned Request's Result channel says happened to its entry.
ResolvedByStop(c) == thId[c] # 0 /\ chan[thId[c]].st = "closed"
ResolvedWith(c, e) ==
  thId[c] # 0 /\ chan[thId[c]].st = "taken" /\ chan[thId[c]].err = e

\* C12: a Request that has returned returned the Cancelled failure exactly
\* when Stop resolved its pending entry, the response's error exactly when
\* the correlated response carried one, and the response message exactly
\* when it carried none.
C12_TypedOutcome ==
  \A c \in Callers :
    thKind[c] = "request" /\ thPc[c] = "done" =>
      /\ thRes[c].tag = "cancelled" <=> ResolvedByStop(c)
      /\ thRes[c].tag = "remote" <=> ResolvedWith(c, TRUE)
      /\ thRes[c].tag = "ok" <=> ResolvedWith(c, FALSE)

\* C13: a Stop call returns only when the subprocess it was called to stop
\* has exited: the one it snapshotted, or, for a call that found the handle
\* already cleared by an overlapping Stop, the one that Stop is still
\* waiting for.
C13_StopAwaitsExit ==
  [][\A s \in AllStoppers :
       /\ StopWait(s) => inst'[stInst[s]] = "exited"
       /\ StopNoop(s) =>
            \A s2 \in AllStoppers :
              stPc[s2] = "wait" => inst[stInst[s2]] # "alive"]_vars

\* C14: a Stop call that finds no subprocess (never started, failed to
\* start, already stopped) returns having changed neither status, handles,
\* pending table, Result channels nor permission table; and a Stop that
\* found one leaves none behind, so that a second call in a row is that
\* no-op.
C14_StopNoopFrame ==
  [][\A s \in AllStoppers :
       /\ stPc[s] = "idle" /\ stPc'[s] # "idle" /\ cmd = 0 =>
            /\ stPc'[s] = "done"
            /\ UNCHANGED <<status, cmd, stdin, stdout, stderr, pending, chan,
                           perms, permChan, inst>>
       /\ StopWait(s) /\ ~stOverlap[s] => cmd' = 0]_vars

\* One Stop stopped a subprocess, another found none, and a request is
\* registered on the stopped Process.
C14_StoppedTwice ==
  \E s1, s2 \in AllStoppers :
    /\ stPc[s1] = "done" /\ stInst[s1] # 0
    /\ stPc[s2] = "done" /\ stInst[s2] = 0
    /\ status = StatusStopped /\ cmd = 0 /\ pending # {}

\* C15: a Start call on a Running Process returns nil having spawned
\* nothing, launched no read loop and no stderr drain, and changed neither
\* status, handles nor pending table.
C15_StartNoopFrame ==
  [][\A c \in Callers :
       thPc[c] = "idle" /\ thKind'[c] = "start" /\ status = StatusRunning =>
         /\ thPc'[c] = "done" /\ thRes'[c].tag = "ok"
         /\ UNCHANGED <<status, cmd, stdin, stdout, stderr, pending, chan,
                        inst, nextInst, rlPc, sdPc>>]_vars

\* Two Start calls have returned nil, one subprocess was spawned, and the
\* Process is Running.
C15_SecondStartNoop ==
  /\ \A c \in Callers :
       thKind[c] = "start" /\ thPc[c] = "done" /\ thRes[c].tag = "ok"
  /\ nextInst = 2 /\ status = StatusRunning

\* C16: a Start whose spawn or pipe setup fails sets Error and returns the
\* failure; the Request that made the call returns it too, having
\* registered nothing; and a Start or Request call on a Process in Error
\* goes on to spawn.
C16_SpawnFailure ==
  [][\A c \in Callers :
       /\ thPc[c] = "spawn" /\ thPc'[c] # "spawn" /\ nextInst' = nextInst =>
            /\ status' = StatusError
            /\ thPc'[c] = "done" /\ thRes'[c].tag = "spawnerr"
            /\ thId'[c] = 0 /\ pending' = pending /\ chan' = chan
       /\ thPc[c] = "idle" /\ thPc'[c] # "idle" /\ status = StatusError =>
            thPc'[c] = "spawn" /\ status' = StatusStarting]_vars

\* One Request returned the spawn failure, and the Process is Running with
\* the other Request registered and waiting.
C16_FailedThenSpawned ==
  \E c1, c2 \in Callers :
    /\ thKind[c1] = "request" /\ thPc[c1] = "done" /\ thRes[c1].tag = "spawnerr"
    /\ thKind[c2] = "request" /\ thPc[c2] = "wait" /\ thId[c2] \in pending
    /\ status = StatusRunning

\* C17: a Notify call on a Process that is not Running returns nil at once,
\* having written nothing, started nothing and changed nothing.
C17_NotifyDropped ==
  [][\A c \in Callers :
       thPc[c] = "idle" /\ thKind'[c] = "notify" /\ status # StatusRunning =>
         /\ thPc'[c] = "done" /\ thRes'[c].tag = "ok"
         /\ UNCHANGED <<procVars, reqVars, permVars, instVars, inbox, stVars,
                        rlVars, sdVars>>]_vars

\* A Notify has returned nil on a Process that had a subprocess, and no
\* subprocess was written to.
C17_DroppedSilently ==
  \E c \in Callers :
    /\ thKind[c] = "notify" /\ thPc[c] = "done" /\ thRes[c].tag = "ok"
    /\ nextInst = 2 /\ status = StatusStopped
    /\ \A i \in Inst : inbox[i] = <<>>

\* How many of the three predicates a message satisfies.
Classes(m) ==
  (IF IsResponse(m) THEN 1 ELSE 0) + (IF IsRequest(m) THEN 1 ELSE 0)
    + (IF IsNotification(m) THEN 1 ELSE 0)

\* The decoded line handled last was handled as what the presence of its
\* id and method say.
HandledByIdAndMethod ==
  LET m == handled.line.m IN
    handled.line.json =>
      /\ handled.as = "response" <=> (m.hasId /\ m.method = "")
      /\ handled.as = "request" <=> (m.hasId /\ m.method # "")
      /\ handled.as = "notification" <=> (~m.hasId /\ m.method # "")
      /\ handled.as = "none" <=> (~m.hasId /\ m.method = "")

\* C18: a decoded message is handled as a response, a reverse request or a
\* notification by the presence of its id and method alone; no message is
\* in two classes; only a response touches the pending table and the Result
\* channels, only a reverse request is written for, and a message with
\* neither id nor method does neither.
C18_Classification ==
  /\ [](HandledByIdAndMethod /\ Classes(handled.line.m) <= 1)
  /\ [][\/ /\ handled'.as # "response" => UNCHANGED <<pending, chan, sends>>
          /\ handled'.as # "request" => inbox' = inbox
       \/ \A r \in Inst : ~HandleMessage(r)]_vars

\* A message with neither id nor method was the last line handled, while a
\* request was pending and nothing had been written to the subprocess.
C18_NeitherSkipped ==
  /\ handled.line.json /\ handled.as = "none"
  /\ pending # {}
  /\ \A i \in Inst : inbox[i] = <<>>

\* The line handled in this step did not decode, or is a response whose id
\* is not in the pending table.
DroppedLine ==
  \/ ~handled'.line.json
  \/ handled'.as = "response" /\ handled'.line.m.id \notin pending

\* C19: handling a line that does not decode, or a response whose id
\* matches no pending request, changes neither status, pending table,
\* Result channels nor permission table, resolves no caller, writes
\* nothing, and leaves the read loop reading.
C19_DroppedLines ==
  [][\/ DroppedLine =>
          /\ UNCHANGED <<status, pending, chan, sends, perms, permChan, inbox,
                         thRes, rlPc>>
     \/ \A r \in Inst : ~HandleMessage(r)]_vars

\* The last line handled is a response to an id that was never allocated,
\* while the Process is Running with a request pending.
C19_UnknownIdDropped ==
  /\ handled.as = "response"
  /\ chan[handled.line.m.id].st = "none"
  /\ status = StatusRunning /\ pending # {}

\* C20: no two Requests are given the same id, every id given is above all
\* ids given before (whatever became of those requests, and across
\* restarts), and the id registered is not already in the pending table.
C20_MonotonicIds ==
  /\ [](\A c1, c2 \in Callers : c1 # c2 /\ thId[c1] # 0 => thId[c1] # thId[c2])
  /\ [](\A id \in pending : id <= requestID)
  /\ [][/\ requestID' >= requestID
        /\ \A c \in Callers :
             thId'[c] # thId[c] =>
               /\ thId'[c] > requestID /\ requestID' = thId'[c]
               /\ thId'[c] \notin pending /\ thId'[c] \in pending'
               /\ \A c2 \in Callers : thId'[c] > thId[c2]]_vars

\* A Request was cancelled by a Stop of the first subprocess, and the other
\* Request, registered on the second subprocess, holds the next id.
C20_NextIdAfterRestart ==
  \E c1, c2 \in Callers :
    /\ thId[c1] = 1 /\ thRes[c1].tag = "cancelled"
    /\ thId[c2] = 2 /\ thPc[c2] = "wait" /\ 2 \in pending
    /\ cmd = 2
    /\ \E s \in AllStoppers : stPc[s] = "done" /\ stInst[s] = 1

\* ---------------------------------------------------------------- line order
MaxLines == 3    \* lines read from one subprocess's stdout

\* readLoop, line 353: scanner.Scan() takes the next line of the captured
\* pipe (lines still buffered when the subprocess exited included).
ScanLine(r) ==
  /\ rlPc[r] = "read"
  /\ lineNo[rlCap[r]] < MaxLines
  /\ lineNo' = [lineNo EXCEPT ![rlCap[r]] = @ + 1]
  /\ rlLine' = [rlLine EXCEPT ![r] = lineNo[rlCap[r]] + 1]
  /\ rlPc' = [rlPc EXCEPT ![r] = "handle"]
  /\ UNCHANGED <<procVars, reqVars, permVars, instVars, inbox, thVars, stVars,
                 rlCap, rlMsg, handled, sdVars, sink, notOrd>>

\* readLoop / handleMessage, lines 354-368 and 378-406: the line is decoded
\* and handled (for a notification, onNotification has returned); the loop
\* goes back to scanner.Scan().
HandleLine(r) ==
  /\ rlPc[r] = "handle"
  /\ sink' = Append(sink, [pipe |-> rlCap[r], no |-> rlLine[r]])
  /\ rlLine' = [rlLine EXCEPT ![r] = 0]
  /\ rlPc' = [rlPc EXCEPT ![r] = "read"]
  /\ UNCHANGED <<procVars, reqVars, permVars, instVars, inbox, thVars, stVars,
                 rlCap, rlMsg, handled, sdVars, lineNo, notOrd>>

\* Start, subprocess exit and the read loops, reading line by line.
OrderNext ==
  \/ \E c \in Callers : StartCall(c)
  \/ \E c \in Callers : StartSpawnFail(c)
  \/ \E c \in Callers : StartSpawnOk(c)
  \/ \E i \in Inst : InstExit(i)
  \/ \E r \in Inst : ReadLoopCapture(r)
  \/ \E r \in Inst : ScanLine(r)
  \/ \E r \in Inst : HandleLine(r)
  \/ \E r \in Inst : ReadLoopEnd(r)

OrderSpec == Init /\ [][OrderNext]_vars

\* The lines of one pipe were handled in the order they were read.
InArrivalOrder ==
  \A a, b \in 1..Len(sink) :
    a < b /\ sink[a].pipe = sink[b].pipe => sink[a].no < sink[b].no

\* No two lines of one pipe are being handled at the same time.
OneAtATime ==
  \A r1, r2 \in Inst :
    r1 # r2 /\ rlPc[r1] = "handle" /\ rlPc[r2] = "handle"
      => rlCap[r1] # rlCap[r2]

\* C21: for a single Process the lines of a subprocess's stdout are handled
\* in the order they appear: the handling of line k completes before the
\* handling of line k+1 begins, so notifications reach the event sink in
\* arrival order.
C21_LineOrder == InArrivalOrder /\ OneAtATime

\* With one read loop per pipe the order is kept.
C21_OrderPerLoop ==
  (\A r1, r2 \in Inst : r1 # r2 /\ rlCap[r1] # 0 => rlCap[r1] # rlCap[r2])
    => C21_LineOrder

\* ---------------------------------------------------------------- Manager
MaxAgents == 2   \* entries of Config.Agents
NMCallers == 2   \* goroutines that call the Manager (one call each)
MaxSpawn == 2    \* subprocesses the managed Processes spawn in one behaviour

AgentIds == {"a", "b"}
DefaultAgentId == "a"                 \* Config.DefaultAgent
AskedIds == AgentIds \cup {"", "x"}   \* the ids callers pass
MCallers == 1..NMCallers
Subs == 1..MaxSpawn
Configs == UNION {[1..n -> AgentIds] : n \in 0..MaxAgents}

\* NewProcess, lines 78-89.
NewProcess == [status |-> StatusIdle, cmd |-> 0, pending |-> {}]

\* A construction that creates no Process until it is asked for.
ManagerAgentsLazy(cfg) == <<>>

\* NewManager, lines 28-31: one Process per id of cfg.Agents (a later entry
\* with the same id replaces the earlier one).
ManagerAgents(cfg) == [id \in {cfg[k] : k \in DOMAIN cfg} |-> NewProcess]

\* NewManager for any configuration; no call has been made yet.
NewManager ==
  /\ cfgAgents \in Configs
  /\ defaultAgent = DefaultAgentId
  /\ agents = ManagerAgents(cfgAgents)
  /\ subOwner = [i \in Subs |-> ""]
  /\ subState = [i \in Subs |-> "none"]
  /\ mgNext = 1
  /\ mcKind = [c \in MCallers |-> "none"]
  /\ mcId = [c \in MCallers |-> ""]
  /\ mcPc = [c \in MCallers |-> "idle"]
  /\ mcRes = [c \in MCallers |-> "none"]
  /\ sdnPc = "idle" /\ sdnLeft = {} /\ sdnCur = 0 /\ sdnOverlap = FALSE

ManagerInit ==
  /\ ProcessInit /\ StoppersInit(Stoppers)
  /\ OrderInit /\ OutcomeInit /\ TurnInit /\ NewManager
  /\ DeliverInit /\ ReturnInit /\ PermInit /\ ChatInit

\* Get, lines 46-48: the empty id stands for the default agent.
Resolve(id) == IF id = "" THEN defaultAgent ELSE id

\* Get, lines 50-53.
Found(id) == Resolve(id) \in DOMAIN agents

\* The agent a caller's call is addressed to.
Target(c) == Resolve(mcId[c])

\* Where a call goes when Manager.Start returns the agent.
AfterMgrStart(kind) == IF kind = "request" THEN "reqcheck" ELSE "done"

\* Manager.Get (lines 42-55), alone or as the first step of Manager.Start /
\* Manager.Request: it takes m.mu for reading, so it waits while Shutdown
\* holds the lock.
MgrGet(c, kind, id) ==
  /\ mcPc[c] = "idle"
  /\ sdnPc \notin {"loop", "wait"}
  /\ mcKind' = [mcKind EXCEPT ![c] = kind]
  /\ mcId' = [mcId EXCEPT ![c] = id]
  /\ IF ~Found(id)
       THEN /\ mcRes' = [mcRes EXCEPT ![c] = "notfound"]
            /\ mcPc' = [mcPc EXCEPT ![c] = "done"]
       ELSE IF kind = "get"
         THEN /\ mcRes' = [mcRes EXCEPT ![c] = "ok"]
              /\ mcPc' = [mcPc EXCEPT ![c] = "done"]
         ELSE /\ mcRes' = mcRes
              /\ mcPc' = [mcPc EXCEPT ![c] = "start"]
  /\ UNCHANGED <<processVars, notMgr, cfgVars, agents, subVars, sdnVars>>

\* Manager.Start, lines 84-90, with Process.Start lines 117-123: a Running
\* agent is returned as it is; otherwise Process.Start sets Starting.
MgrStart(c) ==
  /\ mcPc[c] = "start"
  /\ IF agents[Target(c)].status = StatusRunning
       THEN /\ mcPc' = [mcPc EXCEPT ![c] = AfterMgrStart(mcKind[c])]
            /\ mcRes' = IF mcKind[c] = "start"
                          THEN [mcRes EXCEPT ![c] = "ok"] ELSE mcRes
            /\ agents' = agents
       ELSE /\ agents' = [agents EXCEPT ![Target(c)].status = StatusStarting]
            /\ mcPc' = [mcPc EXCEPT ![c] = "spawn"]
            /\ mcRes' = mcRes
  /\ UNCHANGED <<processVars, notMgr, cfgVars, subVars, mcKind, mcId, sdnVars>>

\* Process.Request, lines 262-266, with Process.Start lines 117-123.
MgrRequestCheck(c) ==
  /\ mcPc[c] = "reqcheck"
  /\ IF agents[Target(c)].status = StatusRunning
       THEN /\ mcPc' = [mcPc EXCEPT ![c] = "register"]
            /\ agents' = agents
       ELSE /\ agents' = [agents EXCEPT ![Target(c)].status = StatusStarting]
            /\ mcPc' = [mcPc EXCEPT ![c] = "respawn"]
  /\ UNCHANGED <<processVars, notMgr, cfgVars, subVars, mcKind, mcId, mcRes,
                 sdnVars>>

\* Process.Start, lines 125-168: the subprocess is spawned and installed,
\* status = Running.
MgrSpawnOk(c) ==
  /\ mcPc[c] \in {"spawn", "respawn"}
  /\ mgNext <= MaxSpawn
  /\ subOwner' = [subOwner EXCEPT ![mgNext] = Target(c)]
  /\ subState' = [subState EXCEPT ![mgNext] = "alive"]
  /\ mgNext' = mgNext + 1
  /\ agents' = [agents EXCEPT ![Target(c)].status = StatusRunning,
                              ![Target(c)].cmd = mgNext]
  /\ mcPc' = [mcPc EXCEPT ![c] = IF mcPc[c] = "respawn" THEN "register"
                                   ELSE AfterMgrStart(mcKind[c])]
  /\ mcRes' = IF mcPc[c] = "spawn" /\ mcKind[c] = "start"
                THEN [mcRes EXCEPT ![c] = "ok"] ELSE mcRes
  /\ UNCHANGED <<processVars, notMgr, cfgVars, mcKind, mcId, sdnVars>>

\* Process.Start, lines 125-156: a pipe or the spawn fails, status = Error;
\* the failure is returned by Manager.Start / Manager.Request.
MgrSpawnFail(c) ==
  /\ mcPc[c] \in {"spawn", "respawn"}
  /\ agents' = [agents EXCEPT ![Target(c)].status = StatusError]
  /\ mcRes' = [mcRes EXCEPT ![c] = "spawnerr"]
  /\ mcPc' = [mcPc EXCEPT ![c] = "done"]
  /\ UNCHANGED <<processVars, notMgr, cfgVars, subVars, mcKind, mcId, sdnVars>>

\* Process.Request, lines 268-273: the request is registered.
MgrRegister(c) ==
  /\ mcPc[c] = "register"
  /\ agents' = [agents EXCEPT ![Target(c)].pending = @ \cup {c}]
  /\ mcPc' = [mcPc EXCEPT ![c] = "write"]
  /\ UNCHANGED <<processVars, notMgr, cfgVars, subVars, mcKind, mcId, mcRes,
                 sdnVars>>

\* Process.Request, lines 275-281, and write, lines 319-336: the write fails
\* when stdin is nil or the subprocess has exited, and the entry is removed.
MgrWrite(c) ==
  /\ mcPc[c] = "write"
  /\ LET p == agents[Target(c)] IN
       IF p.cmd # 0 /\ subState[p.cmd] = "alive"
         THEN /\ mcPc' = [mcPc EXCEPT ![c] = "wait"]
              /\ UNCHANGED <<agents, mcRes>>
         ELSE /\ agents' = [agents EXCEPT ![Target(c)].pending = @ \ {c}]
              /\ mcRes' = [mcRes EXCEPT ![c] = "writeerr"]
              /\ mcPc' = [mcPc EXCEPT ![c] = "done"]
  /\ UNCHANGED <<processVars, notMgr, cfgVars, subVars, mcKind, mcId, sdnVars>>

\* handleMessage, lines 380-391, and Request, lines 283-293, then
\* Manager.Request, lines 114-119: a read loop of the agent delivers the
\* response and the caller returns its result.
MgrRespond(c) ==
  /\ mcPc[c] = "wait"
  /\ c \in agents[Target(c)].pending
  /\ \E i \in Subs : subOwner[i] = Target(c) /\ subState[i] \in {"alive", "exited"}
  /\ agents' = [agents EXCEPT ![Target(c)].pending = @ \ {c}]
  /\ mcRes' = [mcRes EXCEPT ![c] = "ok"]
  /\ mcPc' = [mcPc EXCEPT ![c] = "done"]
  /\ UNCHANGED <<processVars, notMgr, cfgVars, subVars, mcKind, mcId, sdnVars>>

\* Request, lines 284-287: the Result channel was closed by Stop.
MgrCancelled(c) ==
  /\ mcPc[c] = "wait"
  /\ c \notin agents[Target(c)].pending
  /\ mcRes' = [mcRes EXCEPT ![c] = "cancelled"]
  /\ mcPc' = [mcPc EXCEPT ![c] = "done"]
  /\ UNCHANGED <<processVars, notMgr, cfgVars, agents, subVars, mcKind, mcId,
                 sdnVars>>

\* A managed subprocess exits on its own.
MgrExit(i) ==
  /\ subState[i] = "alive"
  /\ subState' = [subState EXCEPT ![i] = "exited"]
  /\ UNCHANGED <<processVars, notMgr, cfgVars, agents, subOwner, mgNext, mcVars,
                 sdnVars>>

\* readLoop, lines 370-375, for the loop reading subprocess i: at EOF it
\* sets Stopped if its pipe is still the current one or none is.
MgrLoopEnd(i) ==
  /\ subState[i] = "exited"
  /\ subState' = [subState EXCEPT ![i] = "drained"]
  /\ agents' = IF agents[subOwner[i]].cmd \in {i, 0}
                 THEN [agents EXCEPT ![subOwner[i]].status = StatusStopped]
                 ELSE agents
  /\ UNCHANGED <<processVars, notMgr, cfgVars, subOwner, mgNext, mcVars, sdnVars>>

\* A Request or Start call is in progress.
MgrBusy == \E c \in MCallers : mcPc[c] \notin {"idle", "done"}

\* Shutdown, line 127: the agents the loop still has to visit after a.
ShutdownRest(a) == sdnLeft \ {a}

\* Shutdown, lines 124-127: the Manager lock is taken.
ShutdownLock ==
  /\ sdnPc = "idle"
  /\ sdnPc' = "loop"
  /\ sdnLeft' = DOMAIN agents
  /\ sdnOverlap' = MgrBusy
  /\ UNCHANGED <<processVars, notMgr, cfgVars, agents, subVars, mcVars, sdnCur>>

\* Shutdown, lines 127-129, with Stop lines 194-215 for the next agent (in
\* map order, which is any order): no-op when cmd is nil; otherwise the
\* handles are cleared, status = Stopped and every pending request is
\* resolved by closing its channel.
ShutdownStop(a) ==
  /\ sdnPc = "loop"
  /\ a \in sdnLeft
  /\ sdnLeft' = ShutdownRest(a)
  /\ sdnOverlap' = (sdnOverlap \/ MgrBusy)
  /\ IF agents[a].cmd = 0
       THEN UNCHANGED <<agents, sdnPc, sdnCur>>
       ELSE /\ agents' = [agents EXCEPT ![a] =
                 [status |-> StatusStopped, cmd |-> 0, pending |-> {}]]
            /\ sdnCur' = agents[a].cmd
            /\ sdnPc' = "wait"
  /\ UNCHANGED <<processVars, notMgr, cfgVars, subVars, mcVars>>

\* Stop, lines 217-240: stdin is closed, the interrupt is sent, and Stop
\* waits for the exit (killing after the grace period).
ShutdownWait ==
  /\ sdnPc = "wait"
  /\ subState' = [subState EXCEPT ![sdnCur] = IF @ = "alive" THEN "exited" ELSE @]
  /\ sdnCur' = 0
  /\ sdnPc' = "loop"
  /\ sdnOverlap' = (sdnOverlap \/ MgrBusy)
  /\ UNCHANGED <<processVars, notMgr, cfgVars, agents, subOwner, mgNext, mcVars,
                 sdnLeft>>

\* Shutdown, lines 130-131: the loop is over, the lock is released.
ShutdownReturn ==
  /\ sdnPc = "loop"
  /\ sdnLeft = {}
  /\ sdnPc' = "done"
  /\ sdnOverlap' = (sdnOverlap \/ MgrBusy)
  /\ UNCHANGED <<processVars, notMgr, cfgVars, agents, subVars, mcVars, sdnLeft,
                 sdnCur>>

ManagerNext ==
  \/ \E c \in MCallers, k \in {"get", "start", "request"}, id \in AskedIds :
       MgrGet(c, k, id)
  \/ \E c \in MCallers : MgrStart(c)
  \/ \E c \in MCallers : MgrRequestCheck(c)
  \/ \E c \in MCallers : MgrSpawnOk(c)
  \/ \E c \in MCallers : MgrSpawnFail(c)
  \/ \E c \in MCallers : MgrRegister(c)
  \/ \E c \in MCallers : MgrWrite(c)
  \/ \E c \in MCallers : MgrRespond(c)
  \/ \E c \in MCallers : MgrCancelled(c)
  \/ \E i \in Subs : MgrExit(i)
  \/ \E i \in Subs : MgrLoopEnd(i)
  \/ ShutdownLock
  \/ \E a \in AgentIds : ShutdownStop(a)
  \/ ShutdownWait
  \/ ShutdownReturn

ManagerSpec == ManagerInit /\ [][ManagerNext]_vars

\* The subprocesses agent a spawned that are still alive.
AliveOf(a) == {i \in Subs : subOwner[i] = a /\ subState[i] = "alive"}

\* Shutdown returns in this step, and no Request or Start call was in
\* progress at any time between its first step and its return.
ShutdownReturnsAlone == sdnPc = "loop" /\ sdnPc' = "done" /\ ~sdnOverlap'

\* C22: after Manager.Shutdown returns, with no Request or Start running
\* concurrently, every managed Process has been stopped: none has status
\* Running, no subprocess a managed Process spawned is still alive, and
\* every pending-request table is empty.
C22_ShutdownStopsAll ==
  [][ShutdownReturnsAlone =>
       \A a \in DOMAIN agents' :
         /\ agents'[a].status # StatusRunning
         /\ AliveOf(a)' = {}
         /\ agents'[a].pending = {}]_vars

\* What Shutdown does achieve: no Process is Running or holds a subprocess,
\* every table is empty, and the subprocess each Process held is gone.
C22_CurrentStopped ==
  [][ShutdownReturnsAlone =>
       \A a \in DOMAIN agents' :
         /\ agents'[a].status # StatusRunning
         /\ agents'[a].cmd = 0
         /\ agents'[a].pending = {}]_vars

\* The ids the configuration names.
Configured == {cfgAgents[k] : k \in DOMAIN cfgAgents}

\* No call has been made on the Manager since its construction.
JustConstructed ==
  /\ \A c \in MCallers : mcPc[c] = "idle"
  /\ sdnPc = "idle"

\* The Manager holds one Process per configured id, and right after the
\* construction each is Idle with no subprocess.
OnePerConfigured ==
  /\ DOMAIN agents = Configured
  /\ JustConstructed =>
       /\ \A a \in Configured : agents[a].status = StatusIdle /\ agents[a].cmd = 0
       /\ \A i \in Subs : subState[i] = "none"

\* A subprocess appears only in a step of a Start or Request call, and it
\* belongs to the agent that call is addressed to.
SpawnedByCall ==
  \A i \in Subs :
    subState[i] = "none" /\ subState'[i] # "none" =>
      \E c \in MCallers :
        /\ mcKind[c] \in {"start", "request"}
        /\ mcPc[c] # mcPc'[c]
        /\ subOwner'[i] = (IF mcId[c] = "" THEN defaultAgent ELSE mcId[c])
        /\ subOwner'[i] \in Configured
        /\ agents'[subOwner'[i]].cmd = i

\* Caller c's call is made in this step, with an id in U, and it returns an
\* error at once without changing any Process or spawning anything.
RefusedIfIn(c, U) ==
  mcPc[c] = "idle" /\ mcPc'[c] # "idle" /\ mcId'[c] \in U =>
    /\ mcRes'[c] = "notfound"
    /\ mcPc'[c] = "done"
    /\ UNCHANGED <<agents, subVars>>

\* C23 (as stated): constructing a Manager creates exactly one Process per
\* configured agent id, each Idle with no subprocess; a subprocess is
\* spawned only by a Request or Start addressed to its Process; and a
\* Manager.Request or Get for an id that is not configured returns an error
\* without spawning or changing anything.
C23_LazySpawn ==
  /\ []OnePerConfigured
  /\ [][SpawnedByCall]_vars
  /\ [][\A c \in MCallers : RefusedIfIn(c, AskedIds \ Configured)]_vars

\* The ids that name no Process once the empty id has been replaced by the
\* default agent id.
Unresolved ==
  {id \in AskedIds : (IF id = "" THEN defaultAgent ELSE id) \notin Configured}

\* C23 (amended): the same, where the empty id is addressed to the default
\* agent: the call is refused when the id, after the empty id has been
\* replaced by the default agent id, is not configured.
C23_LazySpawnDefault ==
  /\ []OnePerConfigured
  /\ [][SpawnedByCall]_vars
  /\ [][\A c \in MCallers : RefusedIfIn(c, Unresolved)]_vars

\* A call for an unconfigured id was refused while another call has spawned
\* the subprocess of a configured agent.
C23_RefusedAndSpawned ==
  /\ \E c \in MCallers : mcId[c] = "x" /\ mcRes[c] = "notfound"
  /\ \E c \in MCallers : mcId[c] = "" /\ mcKind[c] = "request" /\ mcRes[c] = "ok"
  /\ \E i \in Subs : subState[i] = "alive" /\ subOwner[i] = defaultAgent

\* ---------------------------------------------------------------- outcome
MaxTail == 3     \* characters that follow the start of an option id

\* Option ids are sequences of characters: a prefix of "reject" followed by
\* up to MaxTail more characters, and the two ids of the scenario.
Reject == <<"r", "e", "j", "e", "c", "t">>
RejectOnce == Reject \o <<"_", "o", "n", "c", "e">>
AllowOnce == <<"a", "l", "l", "o", "w", "_", "o", "n", "c", "e">>
Tails == UNION {[1..n -> {"e", "t", "_"}] : n \in 0..MaxTail}
OptionIDs ==
  {SubSeq(Reject, 1, k) \o t : k \in 0..Len(Reject), t \in Tails}
    \cup {RejectOnce, AllowOnce}

\* handlePermissionRequest, lines 453-456.
Outcome(o) ==
  IF Len(o) > 6 /\ SubSeq(o, 1, 6) = Reject THEN "rejected" ELSE "selected"

\* handlePermissionRequest, lines 451-465: the option id arrives on the
\* Response channel and the outcome sent back is computed from it.
Decide(o) ==
  /\ outcome = "none"
  /\ optionID' = o
  /\ outcome' = Outcome(o)
  /\ UNCHANGED <<processVars, notOut>>

OutcomeNext == \E o \in OptionIDs : Decide(o)

OutcomeSpec == Init /\ [][OutcomeNext]_vars

\* o begins with the characters of p.
HasPrefix(o, p) == Len(o) >= Len(p) /\ SubSeq(o, 1, Len(p)) = p

\* C24: the outcome sent back for a permission decision is "rejected"
\* exactly when the confirmed option id begins with "reject", and "selected"
\* for every other option id; "reject_once" gives "rejected" and
\* "allow_once" gives "selected".
C24_OutcomeByPrefix ==
  outcome # "none" =>
    outcome = (IF HasPrefix(optionID, Reject) THEN "rejected" ELSE "selected")

\* The two option ids of the scenario get the outcomes the claim names, and
\* so does every option id other than "reject" itself.
C24_OutcomeUnlessBare ==
  /\ optionID = RejectOnce => outcome = "rejected"
  /\ optionID = AllowOnce => outcome = "selected"
  /\ outcome # "none" /\ optionID # Reject =>
       outcome = (IF HasPrefix(optionID, Reject) THEN "rejected" ELSE "selected")

\* ---------------------------------------------------------------- translator
MaxNotifs == 4   \* notifications handled in one turn

\* Field values: the empty string and two others.
Vals == {"v", "w"}

\* A rawInput: absent (a nil map), or a map given as its key/value pairs.
NilRaw == [nil |-> TRUE, m |-> {}]
RawMap(m) == [nil |-> FALSE, m |-> m]
HasKey(m, k) == \E kv \in m : kv[1] = k
ValueAt(m, k) == (CHOOSE kv \in m : kv[1] = k)[2]

\* A content: absent, the object {type, text}, the array
\* [{type:"content", content:{type:"text", text}}], or any other shape.
NoContent == [shape |-> "none", type |-> "", text |-> ""]
TextContent(t) == [shape |-> "object", type |-> "text", text |-> t]
ArrayContent(t) == [shape |-> "array", type |-> "text", text |-> t]

\* sessionUpdate, lines 10-21, with the _meta.claudeCode fields of lines
\* 32-46 (toolName, toolResponse.stdout, toolResponse.stderr, error); the
\* tool responses considered carry no file.
BaseUpdate ==
  [sessionUpdate |-> "", content |-> NoContent, toolCallId |-> "",
   title |-> "", status |-> "", kind |-> "", rawInput |-> NilRaw,
   error |-> "", toolName |-> "", stdout |-> "", stderr |-> "",
   metaError |-> "", availableCommands |-> <<>>]

\* A notification: its method, and its params when they decode into
\* {update: sessionUpdate} (ParseParams, protocol.go 122-127).
Notification(method, decodes, u) ==
  [method |-> method, decodes |-> decodes, update |-> u]

\* extractTextContent, lines 210-229.
extractTextContent(content) ==
  IF content.shape = "object" /\ content.type = "text" THEN content.text ELSE ""

\* extractDescription, lines 282-308.
extractDescription(content) ==
  IF content.shape = "array" THEN content.text ELSE ""

\* json.MarshalIndent / json.Marshal of a rawInput map, for the maps used.
JsonText(m) ==
  IF m = {} THEN "{}"
  ELSE IF m = {<<"command", "v">>} THEN "{\"command\":\"v\"}"
  ELSE IF m = {<<"command", "w">>} THEN "{\"command\":\"w\"}"
  ELSE IF m = {<<"file_path", "v">>} THEN "{\"file_path\":\"v\"}"
  ELSE IF m = {<<"other", "v">>} THEN "{\"other\":\"v\"}"
  ELSE "{...}"

\* extractInput, lines 231-251.
extractInput(rawInput) ==
  IF rawInput.nil THEN ""
  ELSE IF HasKey(rawInput.m, "command") THEN ValueAt(rawInput.m, "command")
  ELSE IF HasKey(rawInput.m, "file_path") THEN ValueAt(rawInput.m, "file_path")
  ELSE IF HasKey(rawInput.m, "pattern") THEN ValueAt(rawInput.m, "pattern")
  ELSE IF HasKey(rawInput.m, "old_string") THEN "old_string: v"
  ELSE JsonText(rawInput.m)

\* handleNotification, lines 130-136.
RawInputJSON(rawInput) ==
  IF rawInput.m # {} THEN JsonText(rawInput.m) ELSE ""

\* extractOutput, lines 253-278.
extractOutput(update) ==
  [output |-> update.stdout,
   errMsg |-> IF update.error # "" THEN update.error
              ELSE IF update.metaError # "" THEN update.metaError
              ELSE update.stderr]

\* handleNotification, lines 114-120.
StatusOf(update) ==
  IF update.error # "" \/ update.metaError # "" THEN "error"
  ELSE IF update.status = "completed" THEN "completed"
  ELSE "pending"

\* handleNotification, lines 104-149: the ToolCallInfo built from the
\* update alone.
NewToolCall(update) ==
  [ToolCallID |-> update.toolCallId,
   ToolName |-> IF update.toolName # "" THEN update.toolName ELSE update.kind,
   Kind |-> update.kind,
   Title |-> IF update.title = "" THEN update.toolCallId ELSE update.title,
   Description |-> IF update.status # "completed"
                     THEN extractDescription(update.content) ELSE "",
   Status |-> StatusOf(update),
   Input |-> extractInput(update.rawInput),
   RawInput |-> RawInputJSON(update.rawInput),
   Output |-> extractOutput(update).output,
   Error |-> extractOutput(update).errMsg]

\* A merge that clears a field when the update repeats the stored value.
PreferChanged(new, old) == IF new = "" THEN old ELSE IF new = old THEN "" ELSE new

\* handleNotification, lines 155-178: the new value unless it is empty.
Prefer(new, old) == IF new = "" THEN old ELSE new

\* handleNotification, lines 151-179: the record stored when the id already
\* has one.
Merge(new, old) ==
  [new EXCEPT
     !.Input = Prefer(new.Input, old.Input),
     !.RawInput = Prefer(new.RawInput, old.RawInput),
     !.Title = IF new.Title = new.ToolCallID /\ old.Title # new.ToolCallID
                 THEN old.Title ELSE new.Title,
     !.Description = Prefer(new.Description, old.Description),
     !.Output = Prefer(new.Output, old.Output),
     !.Error = Prefer(new.Error, old.Error)]

NoTool == [ToolCallID |-> ""]
TextItem(text) == [type |-> "text", text |-> text, tool |-> NoTool]
ToolItem(tool) == [type |-> "tool", text |-> <<>>, tool |-> tool]

\* The translator's state: what handleNotification reads and writes.
Cur ==
  [items |-> streamItems, text |-> currentText, map |-> toolCallMap,
   commands |-> agentCommands, n |-> nEvents, last |-> lastEvent]

\* sendEvent(name, payload).
SendEvent(S, name, payload) ==
  [S EXCEPT !.n = @ + 1, !.last = [name |-> name, payload |-> payload]]

\* A tool-call boundary that leaves the buffer as it is.
FlushNever(S) == S

\* handleNotification, lines 93-97: the buffer becomes a Text item.
Flush(S) ==
  IF S.text # <<>>
    THEN [S EXCEPT !.items = Append(@, TextItem(S.text)), !.text = <<>>]
    ELSE S

\* An index that is the number of items after the append.
NewIndexAfter(items) == Len(items) + 2

\* handleNotification, line 182: the index of the item about to be
\* appended (len(*streamItems) counts from 0; here items count from 1).
NewIndex(items) == Len(items) + 1

\* An event that carries what the update alone gives.
ToolCallEventDelta(update, tool) ==
  LET new == NewToolCall(update) IN
  [toolCallId |-> new.ToolCallID, toolName |-> new.ToolName,
   kind |-> new.Kind, title |-> new.Title, description |-> new.Description,
   status |-> new.Status, input |-> new.Input, rawInput |-> new.RawInput,
   output |-> new.Output, error |-> new.Error,
   sessionUpdate |-> update.sessionUpdate]

\* handleNotification, lines 186-199: the tool_call event.
ToolCallEvent(update, tool) ==
  [toolCallId |-> tool.ToolCallID,
   toolName |-> IF update.toolName # "" THEN update.toolName ELSE update.kind,
   kind |-> update.kind,
   title |-> tool.Title, description |-> tool.Description,
   status |-> tool.Status, input |-> tool.Input, rawInput |-> tool.RawInput,
   output |-> tool.Output, error |-> tool.Error,
   sessionUpdate |-> update.sessionUpdate]

\* handleNotification, lines 99-200, after the flush.
ToolCall(S, update) ==
  LET id == update.toolCallId
      new == NewToolCall(update)
      idx == S.map[id]
      tool == IF idx # 0 /\ S.items[idx].type = "tool"
                THEN Merge(new, S.items[idx].tool) ELSE new
      stored == IF idx # 0
                  THEN [S EXCEPT !.items[idx] = ToolItem(tool)]
                  ELSE [S EXCEPT !.map[id] = NewIndex(S.items),
                                 !.items = Append(@, ToolItem(tool))]
  IN SendEvent(stored, "tool_call", ToolCallEvent(update, tool))

\* handleNotification, lines 48-206.
Handle(S, msg) ==
  LET update == msg.update IN
  IF msg.method # "session/update" THEN S
  ELSE IF ~msg.decodes THEN S
  ELSE IF update.sessionUpdate \in {"agent_message_chunk", "agent_thought_chunk"}
    THEN LET text == extractTextContent(update.content) IN
         SendEvent([S EXCEPT !.text = IF text # "" THEN Append(@, text) ELSE @],
                   "update", update)
  ELSE IF update.sessionUpdate = "available_commands_update"
    THEN IF Len(update.availableCommands) > 0
           THEN SendEvent([S EXCEPT !.commands = update.availableCommands],
                          "commands", update.availableCommands)
           ELSE S
  ELSE IF update.sessionUpdate \in {"tool_call", "tool_call_update"}
    THEN IF update.toolCallId = "" THEN Flush(S) ELSE ToolCall(Flush(S), update)
  ELSE SendEvent(S, "update", update)

\* The text chunk a notification carries ("" when it carries none).
ChunkOf(msg) ==
  IF /\ msg.method = "session/update" /\ msg.decodes
     /\ msg.update.sessionUpdate \in {"agent_message_chunk", "agent_thought_chunk"}
    THEN extractTextContent(msg.update.content) ELSE ""

\* The read loop hands a notification of the turn to handleNotification.
HandleNotification(msg) ==
  /\ nMsgs < MaxNotifs
  /\ nMsgs' = nMsgs + 1
  /\ LET S == Handle(Cur, msg) IN
       /\ streamItems' = S.items
       /\ currentText' = S.text
       /\ toolCallMap' = S.map
       /\ agentCommands' = S.commands
       /\ nEvents' = S.n
       /\ lastEvent' = S.last
  /\ arrived' = IF ChunkOf(msg) # "" THEN Append(arrived, ChunkOf(msg)) ELSE arrived
  /\ UNCHANGED <<processVars, notTr>>

\* The optional fields an update can set, with the values they take.
Fields ==
  {<<"title", v>> : v \in Vals \cup {"", "t1"}}
    \cup {<<f, v>> : f \in {"kind", "error", "toolName", "stdout", "stderr",
                            "metaError"}, v \in Vals}
    \cup {<<"content", ArrayContent(v)>> : v \in Vals}
    \cup {<<"rawInput", RawMap(m)>> :
            m \in {{}, {<<"command", "v">>}, {<<"command", "w">>},
                   {<<"file_path", "v">>}, {<<"other", "v">>}}}

With(update, fv) == [update EXCEPT ![fv[1]] = fv[2]]

\* The updates of the kinds in K for the ids in I, each setting one of the
\* optional fields in F, with or without status completed.
ToolUpdates(K, I, F) ==
  {With([BaseUpdate EXCEPT !.sessionUpdate = su, !.toolCallId = id,
                           !.status = st], fv) :
     su \in K, id \in I, st \in {"", "completed"}, fv \in F}

ChunkUpdates(T) ==
  {[BaseUpdate EXCEPT !.sessionUpdate = su, !.content = c] :
     su \in {"agent_message_chunk", "agent_thought_chunk"},
     c \in {TextContent(t) : t \in T} \cup {NoContent}}

OtherUpdates ==
  {[BaseUpdate EXCEPT !.sessionUpdate = "available_commands_update",
                      !.availableCommands = cs] : cs \in {<<>>, <<"c">>}}
    \cup {[BaseUpdate EXCEPT !.sessionUpdate = "plan"]}

Notifications(U) ==
  {Notification("session/update", TRUE, u) : u \in U}
    \cup {Notification("session/update", FALSE, BaseUpdate),
          Notification("session/cancel", TRUE, BaseUpdate)}

\* A turn whose notifications are text chunks, tool calls of any id and the
\* other kinds.
TurnNotifications ==
  Notifications(ToolUpdates({"tool_call", "tool_call_update"},
                            ToolCallIds \cup {""}, {<<"title", "">>})
                  \cup ChunkUpdates({"x", "y", ""}) \cup OtherUpdates)

TurnNext == \E msg \in TurnNotifications : HandleNotification(msg)

TurnSpec == Init /\ [][TurnNext]_vars

\* A turn whose notifications are text chunks and the updates of one tool
\* call, with every field.
MergeNotifications ==
  Notifications(ToolUpdates({"tool_call_update"}, {"t1"}, Fields)
                  \cup ToolUpdates({"tool_call"}, {"t1"}, {<<"title", "">>})
                  \cup ChunkUpdates({"x"}))

MergeNext == \E msg \in MergeNotifications : HandleNotification(msg)

MergeSpec == Init /\ [][MergeNext]_vars

\* The step hands msg to the translator.
Handles(msg) ==
  /\ nMsgs' = nMsgs + 1
  /\ streamItems' = Handle(Cur, msg).items
  /\ currentText' = Handle(Cur, msg).text
  /\ toolCallMap' = Handle(Cur, msg).map
  /\ nEvents' = Handle(Cur, msg).n
  /\ lastEvent' = Handle(Cur, msg).last

OtherMethod(msg) == msg.method # "session/update"

\* C25: the translator transforms only session/update notifications; a
\* notification with any other method is passed through unmodified to the
\* event sink: exactly one sink event for it, carrying it, and no change to
\* the stream items, the text buffer or the tool-call index.
C25_PassThrough ==
  [][\A msg \in TurnNotifications :
       OtherMethod(msg) /\ Handles(msg) =>
         /\ nEvents' = nEvents + 1
         /\ lastEvent'.payload = msg
         /\ UNCHANGED <<streamItems, currentText, toolCallMap>>]_vars

\* A notification with another method changes nothing in the turn.
C25_OtherMethodIgnored ==
  [][\A msg \in TurnNotifications :
       OtherMethod(msg) /\ Handles(msg) =>
         UNCHANGED <<streamItems, currentText, toolCallMap, nEvents,
                     lastEvent>>]_vars

\* The chunks held by the Text items among the first n items, in order.
RECURSIVE TextUpTo(_, _)
TextUpTo(items, n) ==
  IF n = 0 THEN <<>>
  ELSE TextUpTo(items, n - 1) \o
         (IF items[n].type = "text" THEN items[n].text ELSE <<>>)

IsToolUpdate(msg) ==
  /\ msg.method = "session/update" /\ msg.decodes
  /\ msg.update.sessionUpdate \in {"tool_call", "tool_call_update"}

\* What the flush of a tool-call boundary leaves: the buffer is empty; if
\* it held text, that text is the one item added before any tool item, and
\* if it held none, no Text item is added.
FlushedFirst ==
  /\ currentText' = <<>>
  /\ Len(streamItems') >= Len(streamItems)
  /\ currentText # <<>> =>
       /\ Len(streamItems') > Len(streamItems)
       /\ streamItems'[Len(streamItems) + 1] = TextItem(currentText)
  /\ \A i \in (Len(streamItems) + 1)..Len(streamItems') :
       streamItems'[i].type = "text" =>
         i = Len(streamItems) + 1 /\ streamItems'[i].text # <<>>

\* The tool calls that get their item in this step have it above every
\* chunk that has arrived.
TextBelowNewTool ==
  \A t \in ToolCallIds :
    toolCallMap[t] = 0 /\ toolCallMap'[t] # 0 =>
      /\ toolCallMap'[t] = Len(streamItems')
      /\ TextUpTo(streamItems', toolCallMap'[t] - 1) = arrived

\* C26: when a tool_call or tool_call_update is processed, the accumulated
\* text is first appended as one new non-empty Text item and the buffer is
\* emptied, before the tool record is created or merged: afterwards the
\* buffer is empty, and every chunk that arrived before a tool call's first
\* update lies in a Text item below that tool's item.
C26_FlushFirst ==
  [][\A msg \in TurnNotifications :
       IsToolUpdate(msg) /\ Handles(msg) => FlushedFirst /\ TextBelowNewTool]_vars

\* A chunk was flushed into a Text item below a tool's item, and a later
\* chunk into a second Text item above it when the tool was updated.
C26_TextToolText ==
  /\ Len(streamItems) = 3
  /\ streamItems[1] = TextItem(<<"x">>)
  /\ streamItems[2].type = "tool"
  /\ streamItems[3] = TextItem(<<"y">>)
  /\ currentText = <<>>

\* The items that are the Tool item of tool-call id t.
ItemsOf(t) ==
  {i \in 1..Len(streamItems) :
     streamItems[i].type = "tool" /\ streamItems[i].tool.ToolCallID = t}

\* At most one Tool item per id, the index of an id refers to it, and every
\* Tool item is the one its id's index refers to.
OneItemPerId ==
  /\ \A t \in ToolCallIds :
       /\ Cardinality(ItemsOf(t)) <= 1
       /\ ItemsOf(t) = IF toolCallMap[t] = 0 THEN {} ELSE {toolCallMap[t]}
  /\ \A i \in 1..Len(streamItems) :
       streamItems[i].type = "tool" =>
         streamItems[i].tool.ToolCallID \in ToolCallIds

\* No item is removed or moved: each stays where it is, a Text item with
\* its text and a Tool item with its id.
ItemsStay ==
  /\ Len(streamItems') >= Len(streamItems)
  /\ \A i \in 1..Len(streamItems) :
       /\ streamItems'[i].type = streamItems[i].type
       /\ streamItems'[i].text = streamItems[i].text
       /\ streamItems'[i].tool.ToolCallID = streamItems[i].tool.ToolCallID

\* C27: within one turn the stream items hold at most one Tool item per
\* tool-call id, items are never removed or reordered, and the index
\* recorded for a tool-call id refers to the Tool item with that id.
C27_OneToolItem == []OneItemPerId /\ [][ItemsStay]_vars

\* Two tool calls have their items, and the first was updated after the
\* second was created.
C27_TwoToolsUpdated ==
  /\ Len(streamItems) = 2
  /\ toolCallMap["t1"] = 1 /\ toolCallMap["t2"] = 2
  /\ streamItems[1].tool.Status = "completed"
  /\ lastEvent.name = "tool_call" /\ lastEvent.payload.toolCallId = "t1"
  /\ nMsgs = 3

\* The update of msg is for a tool call that has its record.
UpdatesRecord(msg) ==
  /\ IsToolUpdate(msg) /\ msg.update.toolCallId \in ToolCallIds
  /\ toolCallMap[msg.update.toolCallId] # 0

\* The record of msg's tool call before msg is processed, and after.
RecordBefore(msg) == streamItems[toolCallMap[msg.update.toolCallId]].tool
RecordAfter(msg) ==
  LET S == Handle(Cur, msg) IN S.items[S.map[msg.update.toolCallId]].tool

\* The update's value when it is non-empty, the stored value otherwise.
NewElseOld(new, old) == IF new # "" THEN new ELSE old

\* The fields merged without exception take the update's value when it is
\* non-empty and keep the stored value otherwise.
MergedFields(F, update, old, now) ==
  LET new == NewToolCall(update) IN
  \A f \in F : now[f] = NewElseOld(new[f], old[f])

\* The same for the title, unless the update's title is the tool-call id,
\* and for the description, unless the update says completed.
MergedTitle(update, old, now) ==
  update.title # update.toolCallId =>
    now.Title = NewElseOld(update.title, old.Title)

MergedDescription(update, old, now) ==
  update.status # "completed" =>
    now.Description =
      NewElseOld(extractDescription(update.content), old.Description)

\* C28: when an update arrives for a tool-call id that already has a
\* record, every field of the merged record (tool name, kind, input, raw
\* input, output, error, and title and description outside their
\* exceptions) is the update's value when that is non-empty and the stored
\* value when it is empty.
C28_MergeRule ==
  \A msg \in MergeNotifications :
    UpdatesRecord(msg) =>
      LET old == RecordBefore(msg)
          now == RecordAfter(msg)
      IN /\ MergedFields({"ToolName", "Kind", "Input", "RawInput", "Output",
                          "Error"}, msg.update, old, now)
         /\ MergedTitle(msg.update, old, now)
         /\ MergedDescription(msg.update, old, now)

\* The rule holds for the fields other than tool name and kind.
C28_MergeRuleOthers ==
  \A msg \in MergeNotifications :
    UpdatesRecord(msg) =>
      LET old == RecordBefore(msg)
          now == RecordAfter(msg)
      IN /\ MergedFields({"Input", "RawInput", "Output", "Error"},
                         msg.update, old, now)
         /\ MergedTitle(msg.update, old, now)
         /\ MergedDescription(msg.update, old, now)

\* C29: once a tool-call record's status has become completed, its
\* description is not overwritten by a later update for the same id; in
\* particular [pending with description D], [completed with no
\* description] leaves the description D.
C29_DescriptionKept ==
  \A msg \in MergeNotifications :
    /\ UpdatesRecord(msg)
    /\ RecordBefore(msg).Status = "completed" \/ msg.update.status = "completed"
    => RecordAfter(msg).Description = RecordBefore(msg).Description

\* The description survives the update that says completed.
C29_CompletedKeeps ==
  \A msg \in MergeNotifications :
    UpdatesRecord(msg) /\ msg.update.status = "completed"
      => RecordAfter(msg).Description = RecordBefore(msg).Description

\* C30: merge idempotence: from any state of a turn, processing the same
\* tool_call_update twice in a row leaves the tool-call record, the stream
\* items and the tool-call index as processing it once leaves them.
C30_MergeIdempotent ==
  \A msg \in MergeNotifications :
    IsToolUpdate(msg) =>
      LET once == Handle(Cur, msg)
          twice == Handle(once, msg)
      IN /\ twice.items = once.items
         /\ twice.map = once.map
         /\ twice.text = once.text

\* An update that found text in the buffer and fields to keep and to
\* replace in the record has just been processed, and processing it again
\* changes nothing.
C30_AppliedTwice ==
  \E msg \in MergeNotifications :
    /\ IsToolUpdate(msg) /\ msg.update.kind = "w"
    /\ Len(streamItems) = 2 /\ toolCallMap["t1"] = 1
    /\ streamItems[1].tool.Input = "v" /\ streamItems[1].tool.Kind = "w"
    /\ streamItems[2] = TextItem(<<"x">>)
    /\ lastEvent = Handle(Cur, msg).last
    /\ streamItems = Handle(Cur, msg).items
    /\ nMsgs = 4

\* The update carries an empty raw input (none, or a map with no key),
\* status completed and no error.
CompletesWithoutInput(update) ==
  /\ update.rawInput.m = {}
  /\ update.status = "completed"
  /\ update.error = "" /\ update.metaError = ""

\* The Tool items of msg's tool call once msg is processed.
ItemsAfter(msg) ==
  LET S == Handle(Cur, msg) IN
  {i \in 1..Len(S.items) :
     S.items[i].type = "tool"
       /\ S.items[i].tool.ToolCallID = msg.update.toolCallId}

\* C31: two successive updates for one tool-call id, the first carrying a
\* raw input and the second an empty raw input and status completed, give
\* exactly one record, whose input and serialized raw input are those
\* derived from the first update and whose status is completed.
C31_InputSurvives ==
  \A msg \in MergeNotifications :
    /\ UpdatesRecord(msg) /\ CompletesWithoutInput(msg.update)
    /\ RecordBefore(msg).RawInput # ""
    => /\ Cardinality(ItemsAfter(msg)) = 1
       /\ RecordAfter(msg).Input = RecordBefore(msg).Input
       /\ RecordAfter(msg).RawInput = RecordBefore(msg).RawInput
       /\ RecordAfter(msg).Status = "completed"

\* The same when the second update carries no rawInput at all.
C31_InputSurvivesAbsent ==
  \A msg \in MergeNotifications :
    /\ UpdatesRecord(msg) /\ CompletesWithoutInput(msg.update)
    /\ msg.update.rawInput.nil
    /\ RecordBefore(msg).RawInput # ""
    => /\ Cardinality(ItemsAfter(msg)) = 1
       /\ RecordAfter(msg).Input = RecordBefore(msg).Input
       /\ RecordAfter(msg).RawInput = RecordBefore(msg).RawInput
       /\ RecordAfter(msg).Status = "completed"

\* The fields of a tool_call event that are fields of the record.
EventFields(e) ==
  [ToolCallID |-> e.toolCallId, ToolName |-> e.toolName, Kind |-> e.kind,
   Title |-> e.title, Description |-> e.description, Status |-> e.status,
   Input |-> e.input, RawInput |-> e.rawInput, Output |-> e.output,
   Error |-> e.error]

\* C32: for every tool_call / tool_call_update that carries a tool-call id
\* exactly one tool_call sink event is emitted, and each field of it (tool
\* name, kind, title, description, status, input, raw input, output, error)
\* equals the field of the merged record stored for the id after the
\* update.
C32_EventIsMerged ==
  \A msg \in MergeNotifications :
    IsToolUpdate(msg) /\ msg.update.toolCallId # "" =>
      LET S == Handle(Cur, msg) IN
        /\ S.n = nEvents + 1
        /\ S.last.name = "tool_call"
        /\ EventFields(S.last.payload) = RecordAfter(msg)

\* The last event is the tool_call event of an update that carried only a
\* kind: its input and description are those stored by earlier updates.
C32_DeltaEnriched ==
  /\ nMsgs = 3 /\ nEvents = 3
  /\ lastEvent.name = "tool_call"
  /\ lastEvent.payload.kind = "w"
  /\ lastEvent.payload.input = "v"
  /\ lastEvent.payload.description = "v"
  /\ EventFields(lastEvent.payload) = streamItems[toolCallMap["t1"]].tool

\* C40: the status of a tool-call record never regresses: once it is
\* completed or error, no later update for the same id sets it back to
\* pending.
C40_StatusKept ==
  \A msg \in MergeNotifications :
    UpdatesRecord(msg) /\ RecordBefore(msg).Status \in {"completed", "error"}
      => RecordAfter(msg).Status # "pending"

\* ---------------------------------------------------------------- subprocesses
\* A Stop that has snapshotted subprocess i and not yet waited for it.
BeingStopped(i) == \E s \in Stoppers : stPc[s] = "wait" /\ stInst[s] = i

\* C35: for any interleaving of concurrent Start and Request calls on one
\* Process, at most one subprocess is alive at a time, and every subprocess
\* that is alive is the one the Process references (or the one a Stop in
\* progress is terminating): none is left running unreferenced.
C35_OneSubprocess ==
  /\ Cardinality({i \in Inst : inst[i] = "alive"}) <= 1
  /\ \A i \in Inst : inst[i] = "alive" => cmd = i \/ BeingStopped(i)

\* C37: a JSON-RPC response to a reverse request is written only to the
\* stdin of the subprocess instance whose stdout produced the request,
\* never to another instance started after a Stop.
C37_AnswerToAsker ==
  [][\A r \in Inst, i \in Inst :
       rlPc[r] = "permwait" /\ rlPc'[r] = "read" /\ inbox'[i] # inbox[i]
         => i = rlCap[r]]_vars

\* A permission asked by instance 1, left pending across its Stop, is
\* answered into the stdin of instance 2.
C37_AnsweredAcrossRestart ==
  /\ stPc[1] = "done" /\ stInst[1] = 1
  /\ rlCap[1] = 1
  /\ inbox[1] = <<>>
  /\ inbox[2] # <<>> /\ inbox[2][1].k = "result"

\* ---------------------------------------------------------------- delivery
\* handleMessage, lines 381-386: under the mutex, the entry of a response
\* line is looked up and deleted; a response with no entry is dropped.
Lookup(r) ==
  /\ rlPc[r] = "read"
  /\ \E id \in ReqIds :
      LET e == PendingFor(id) IN
        /\ pending' = IF e # 0 THEN PendingAfter(e) ELSE pending
        /\ rlFound' = [rlFound EXCEPT ![r] = e]
        /\ rlPc' = [rlPc EXCEPT ![r] = IF e # 0 THEN "send" ELSE "read"]
  /\ UNCHANGED <<notDlv, procVars, requestID, chan, sends, permVars, instVars,
                 inbox, thVars, stVars, rlCap, rlMsg, handled, sdVars>>

\* A send on a Go channel of capacity one: it panics on a closed channel,
\* and cannot proceed while the slot is full.
SendOn(ch, id) ==
  IF ch.st = "closed" THEN [st |-> "panic", val |-> id, err |-> FALSE]
  ELSE FullChan(id)

\* handleMessage, lines 388-390: with the mutex released, the message is
\* sent on the entry's Result channel.
Deliver(r) ==
  /\ rlPc[r] = "send"
  /\ chan[rlFound[r]].st # "full"
  /\ chan' = [chan EXCEPT ![rlFound[r]] = SendOn(@, rlFound[r])]
  /\ sends' = [sends EXCEPT ![rlFound[r]] = @ + 1]
  /\ rlFound' = [rlFound EXCEPT ![r] = 0]
  /\ rlPc' = [rlPc EXCEPT ![r] = "read"]
  /\ UNCHANGED <<notDlv, procVars, requestID, pending, permVars, instVars,
                 inbox, thVars, stVars, rlCap, rlMsg, handled, sdVars>>

\* Request, Stop and the read loop, with the lookup of a response and the
\* send that follows it as two steps.
DeliverNext ==
  \/ \E c \in Callers : RequestCheck(c)
  \/ \E c \in Callers : StartSpawnOk(c)
  \/ \E c \in Callers : RequestRegister(c)
  \/ \E c \in Callers : RequestWrite(c)
  \/ \E c \in Callers : RequestWait(c)
  \/ \E s \in Stoppers : StopNoop(s)
  \/ \E s \in Stoppers : StopClear(s)
  \/ \E s \in Stoppers : StopWait(s)
  \/ \E r \in Inst : ReadLoopCapture(r)
  \/ \E r \in Inst : Lookup(r)
  \/ \E r \in Inst : Deliver(r)
  \/ \E r \in Inst : ReadLoopEnd(r)

DeliverSpec == Init /\ [][DeliverNext]_vars

\* C34: the Result channel of every PendingRequest is used at most once and
\* by one party: the read loop sends the correlated response on it or Stop
\* closes it, never both; the read loop never sends on a closed channel,
\* never finds the slot taken when it delivers, and a second response with
\* the same id is dropped.
C34_OneUse ==
  /\ \A id \in ReqIds :
       /\ sends[id] <= 1
       /\ chan[id].st # "panic"
       /\ chan[id].st = "closed" => sends[id] = 0
  /\ \A r \in Inst :
       rlPc[r] = "send" =>
         /\ chan[rlFound[r]].st = "empty"
         /\ sends[rlFound[r]] = 0
         /\ rlFound[r] \notin pending

\* Stop has closed the channel of one request while a read loop was about
\* to send the response of the other.
C34_StopDuringDelivery ==
  \E r \in Inst :
    /\ rlPc[r] = "send"
    /\ stPc[1] # "idle"
    /\ \E id \in ReqIds : chan[id].st = "closed" /\ id # rlFound[r]

\* ---------------------------------------------------------------- return
\* readLoop / handleMessage, lines 354-368 and 378-392: the line in hand is
\* the response to a pending request: its entry is taken and the message
\* sent on the Result channel, which unblocks the requester.
HandleResponse(r) ==
  /\ rlPc[r] = "handle"
  /\ \E id \in pending :
       /\ pending' = PendingAfter(id)
       /\ chan' = [chan EXCEPT ![id] = FullChan(id)]
       /\ sends' = [sends EXCEPT ![id] = @ + 1]
       /\ respAt' = [respAt EXCEPT ![id] = [pipe |-> rlCap[r], no |-> rlLine[r]]]
  /\ sink' = Append(sink, [pipe |-> rlCap[r], no |-> rlLine[r]])
  /\ rlLine' = [rlLine EXCEPT ![r] = 0]
  /\ rlPc' = [rlPc EXCEPT ![r] = "read"]
  /\ UNCHANGED <<procVars, requestID, permVars, instVars, inbox, thVars,
                 stVars, rlCap, rlMsg, handled, sdVars, lineNo, outVars,
                 mgVars, trVars, dlvVars, hpVars, chVars>>

\* Request and the read loops, reading line by line: a line is handled as
\* a notification (HandleLine) or as the response of a pending request.
ReturnNext ==
  \/ \E c \in Callers : RequestCheck(c)
  \/ \E c \in Callers : StartSpawnOk(c)
  \/ \E c \in Callers : RequestRegister(c)
  \/ \E c \in Callers : RequestWrite(c)
  \/ \E c \in Callers : RequestWait(c)
  \/ \E r \in Inst : ReadLoopCapture(r)
  \/ \E r \in Inst : ScanLine(r)
  \/ \E r \in Inst : HandleLine(r)
  \/ \E r \in Inst : HandleResponse(r)

ReturnSpec == Init /\ [][ReturnNext]_vars

\* The lines of the response's pipe that precede the response.
LinesBefore(id) ==
  {[pipe |-> respAt[id].pipe, no |-> n] : n \in 1..(respAt[id].no - 1)}

\* The lines whose handling has completed.
Processed == {sink[k] : k \in 1..Len(sink)}

\* Request c has returned the response.
Returned(c) == thKind[c] = "request" /\ thPc[c] = "done" /\ thRes[c].tag = "ok"

\* C38: when a Request returns successfully, every notification that
\* appeared on the subprocess's stdout before the correlated response has
\* been handed to and fully processed by the notification handler: none is
\* processed after the requester has been unblocked.
C38_NotificationsFirst ==
  \A c \in Callers : Returned(c) => LinesBefore(thId[c]) \subseteq Processed

\* The same for a response read by the only read loop of its pipe.
C38_FirstPerLoop ==
  \A c \in Callers :
    Returned(c) /\ (\A r1, r2 \in Inst :
                      rlCap[r1] # 0 /\ rlCap[r1] = rlCap[r2] => r1 = r2)
      => LinesBefore(thId[c]) \subseteq Processed

\* ---------------------------------------------------------------- permission handshake
MaxAsks == 2     \* permission requests of one subprocess
MaxStamps == 2   \* values of the millisecond clock

\* The tool-call ids a session/request_permission can carry ("" when the
\* field is absent) and the values time.Now().UnixMilli() can take.
AskedToolCallIDs == {"", "t1", "t2"}
Stamps == 1..MaxStamps

\* handlePermissionRequest, line 434: fmt.Sprintf("perm-%d", ts).
SynthID(ts) == IF ts = 1 THEN "perm-1" ELSE "perm-2"

\* The ids a client can pass to ConfirmPermission.
ConfirmIDs == AskedToolCallIDs \cup {SynthID(ts) : ts \in Stamps}

\* handlePermissionRequest, lines 437-440: onPermission is handed &req,
\* whose ToolCall.ToolCallID is what the subprocess sent.
SurfacedID == reqToolCallID

\* handlePermissionRequest, lines 427-435: the params are decoded and the
\* tool-call id taken from them, or synthesized from the clock when empty.
PermReceive(t, ts) ==
  /\ hpPc = "idle"
  /\ hpN < MaxAsks
  /\ hpN' = hpN + 1
  /\ reqToolCallID' = t
  /\ toolCallID' = IF t = "" THEN SynthID(ts) ELSE t
  /\ hpPc' = "callback"
  /\ UNCHANGED <<notHp, processVars, surfaced, permissions, respCh, decided,
                 answers>>

\* handlePermissionRequest, lines 437-440: the callback is invoked.
PermCallback ==
  /\ hpPc = "callback"
  /\ surfaced' = SurfacedID
  /\ hpPc' = "register"
  /\ UNCHANGED <<notHp, processVars, hpN, reqToolCallID, toolCallID,
                 permissions, respCh, decided, answers>>

\* handlePermissionRequest, lines 443-449: the PendingPermission is
\* registered under the local toolCallID with a fresh Response channel.
PermRegisterKey ==
  /\ hpPc = "register"
  /\ permissions' = permissions \cup {toolCallID}
  /\ respCh' = ""
  /\ hpPc' = "wait"
  /\ UNCHANGED <<notHp, processVars, hpN, reqToolCallID, toolCallID, surfaced,
                 decided, answers>>

\* ConfirmPermission, lines 297-308: the entry under t is deleted and o
\* pushed onto its Response channel; nothing happens without an entry.
\* (decided records the first call made with the surfaced id once the
\* callback has returned.)
Confirm(t, o) ==
  /\ IF t \in permissions
       THEN /\ permissions' = permissions \ {t}
            /\ respCh' = o
       ELSE UNCHANGED <<permissions, respCh>>
  /\ decided' = IF hpPc \in {"register", "wait"} /\ surfaced = t /\ decided = ""
                  THEN o ELSE decided
  /\ UNCHANGED <<notHp, processVars, hpPc, hpN, reqToolCallID, toolCallID,
                 surfaced, answers>>

\* handlePermissionRequest, lines 451-465: the option id arrives and the
\* response carrying it is written.
PermRespond ==
  /\ hpPc = "wait"
  /\ respCh # ""
  /\ answers' = Append(answers, [n |-> hpN, optionId |-> respCh])
  /\ respCh' = ""
  /\ surfaced' = "none"
  /\ decided' = ""
  /\ hpPc' = "idle"
  /\ UNCHANGED <<notHp, processVars, hpN, reqToolCallID, toolCallID,
                 permissions>>

PermNext ==
  \/ \E t \in AskedToolCallIDs, ts \in Stamps : PermReceive(t, ts)
  \/ PermCallback
  \/ PermRegisterKey
  \/ \E t \in ConfirmIDs, o \in Options : Confirm(t, o)
  \/ PermRespond

\* The read loop is a goroutine of its own: the Go scheduler runs it
\* whenever it can proceed.
PermSpec ==
  /\ Init /\ [][PermNext]_vars
  /\ WF_vars(PermCallback) /\ WF_vars(PermRegisterKey) /\ WF_vars(PermRespond)

\* The n-th permission request was answered with option o.
AnsweredWith(n, o) ==
  \E k \in 1..Len(answers) : answers[k] = [n |-> n, optionId |-> o]

\* C36: a permission decision is never lost: if ConfirmPermission(t, o) is
\* called at any time after the permission-request callback has been
\* invoked for tool-call id t, the read loop is eventually unblocked and the
\* subprocess receives the response carrying o, whatever the interleaving
\* between the callback, the registration and ConfirmPermission.
C36_DecisionAnswered ==
  \A n \in 1..MaxAsks, o \in Options :
    (hpN = n /\ reqToolCallID # "" /\ decided = o) ~> AnsweredWith(n, o)

\* The same for a decision that arrives once the entry is registered.
C36_AnsweredIfRegistered ==
  \A n \in 1..MaxAsks, o \in Options :
    (hpN = n /\ reqToolCallID # "" /\ decided = o /\ respCh = o)
      ~> AnsweredWith(n, o)

\* C39: the key under which a PendingPermission is registered is always the
\* tool-call id that was surfaced to the permission-request callback, so a
\* ConfirmPermission with the id the callback received finds the entry,
\* also when the request carried no tool-call id and one is synthesized.
C39_KeyIsSurfaced ==
  hpPc = "wait" /\ respCh = "" => surfaced \in permissions

\* The same for a request that carries a tool-call id.
C39_KeyIsCarried ==
  hpPc = "wait" /\ respCh = "" /\ reqToolCallID # ""
    => surfaced \in permissions

\* ---------------------------------------------------------------- initialization handshake
MaxChats == 3      \* chat turns of one conversation
MaxRestarts == 3   \* subprocesses the agent Process spawns

Restarts == 1..MaxRestarts

\* Process.Request, lines 262-266: the subprocess the request is written
\* to: the current one when the status is Running, else the one Start
\* spawns.
RequestTarget == IF agStatus = "running" THEN agCur ELSE agNext

\* handleChat, line 387: the handshake is run when the agent's flag is not
\* set.
NeedsInitialize == ~initialized

\* Process.Request, lines 262-281, answered by the subprocess: an automatic
\* Start when the status is not Running, then the request is written.
AgentRequest(method) ==
  /\ RequestTarget \in Restarts
  /\ agCur' = RequestTarget
  /\ agStatus' = "running"
  /\ agNext' = IF agStatus = "running" THEN agNext ELSE agNext + 1
  /\ agAlive' = [agAlive EXCEPT ![RequestTarget] = TRUE]
  /\ agLog' = [agLog EXCEPT ![RequestTarget] = Append(@, method)]

\* handleChat, lines 338-385: a chat turn begins.
ChatBegin ==
  /\ chPc = "idle"
  /\ nChats < MaxChats
  /\ nChats' = nChats + 1
  /\ chPc' = "init"
  /\ UNCHANGED <<notCh, processVars, initialized, sessionID, agStatus, agCur,
                 agAlive, agLog, agNext>>

\* handleChat, lines 386-394: initializeAgent unless the flag is set.
ChatInitialize ==
  /\ chPc = "init"
  /\ IF NeedsInitialize
       THEN /\ AgentRequest("initialize")
            /\ initialized' = TRUE
       ELSE UNCHANGED <<initialized, agStatus, agCur, agAlive, agLog, agNext>>
  /\ chPc' = "session"
  /\ UNCHANGED <<notCh, processVars, sessionID, nChats>>

\* handleChat, lines 414-432: createAgentSession unless the conversation
\* has a session id for the agent.
ChatSession ==
  /\ chPc = "session"
  /\ IF ~sessionID
       THEN /\ AgentRequest("session/new")
            /\ sessionID' = TRUE
       ELSE UNCHANGED <<sessionID, agStatus, agCur, agAlive, agLog, agNext>>
  /\ chPc' = "prompt"
  /\ UNCHANGED <<notCh, processVars, initialized, nChats>>

\* handleChat, lines 456-482: session/prompt, then the turn ends.
ChatPrompt ==
  /\ chPc = "prompt"
  /\ AgentRequest("session/prompt")
  /\ chPc' = "idle"
  /\ UNCHANGED <<notCh, processVars, initialized, sessionID, nChats>>

\* A request of the turn fails (the spawn fails, or the subprocess answers
\* with an error): handleChat sends the error event and returns.
ChatFails ==
  /\ chPc \in {"init", "session", "prompt"}
  /\ chPc' = "idle"
  /\ UNCHANGED <<notCh, processVars, initialized, sessionID, nChats, agStatus,
                 agCur, agAlive, agLog, agNext>>

\* The subprocess exits on its own; its read loop sets Stopped
\* (process.go 370-375).
AgentExits ==
  /\ agCur # 0 /\ agAlive[agCur]
  /\ agAlive' = [agAlive EXCEPT ![agCur] = FALSE]
  /\ agStatus' = "stopped"
  /\ UNCHANGED <<notCh, processVars, initialized, sessionID, chPc, nChats,
                 agCur, agLog, agNext>>

\* handleAgentUpdate, lines 79-90: the agent is stopped, its flag deleted
\* and its sessions forgotten.
AgentUpdate ==
  /\ IF agCur # 0
       THEN /\ agAlive' = [agAlive EXCEPT ![agCur] = FALSE]
            /\ agStatus' = "stopped"
            /\ agCur' = 0
       ELSE UNCHANGED <<agAlive, agStatus, agCur>>
  /\ initialized' = FALSE
  /\ sessionID' = FALSE
  /\ UNCHANGED <<notCh, processVars, chPc, nChats, agLog, agNext>>

ChatNext ==
  \/ ChatBegin
  \/ ChatInitialize
  \/ ChatSession
  \/ ChatPrompt
  \/ ChatFails
  \/ AgentExits
  \/ AgentUpdate

ChatSpec == Init /\ [][ChatNext]_vars

\* C33: every subprocess instance of an agent receives the initialize
\* request before any session/new or session/prompt request is written to
\* it, including an instance spawned by Request's automatic start after the
\* previous instance was stopped or exited on its own.
C33_InitializeFirst ==
  \A i \in Restarts : agLog[i] # <<>> => agLog[i][1] = "initialize"
====
